---- MODULE Spec2Model ----
(***************************************************************************)
(* A model of the consensus core of CodeChain: the VoteStep order, the      *)
(* TendermintMessage codec, the codecs of the consensus values and the     *)
(* verification of a vote (tendermint/message.rs), the TendermintState     *)
(* helpers, the Proposal store, the seal view and TwoThirdsMajority        *)
(* (tendermint/types.rs), the supermajority test of the vote collector and *)
(* the reward accounting of the Solo engine (solo/mod.rs).                 *)
(*                                                                         *)
(* Each part of the program has its own specification over its own         *)
(* variables; the variables of the other parts stay at their idle value.   *)
(***************************************************************************)
EXTENDS Integers, Sequences, FiniteSets, TLC

VARIABLES
    lhs, rhs, ordering,          \* two VoteSteps and the results of cmp on them
    msg, wire, decoded,          \* a TendermintMessage, an RLP item, the decoder's result
    state, ret,                  \* a TendermintState and the last helper's return value
    proposal, prev, call,        \* the Proposal store, its value before the last call, the call
    seal, sealRet,               \* the seal fields of a header and the last SealView call
    solo, closed,                \* the chain state of a Solo engine and the last closed block
    votes, majority,             \* the votes collected for a block and the last majority test
    vote, verified,              \* a signed ConsensusMessage and the last verify call
    twoThirds, twoThirdsRet      \* a TwoThirdsMajority and the last call on it

vars == <<lhs, rhs, ordering, msg, wire, decoded, state, ret, proposal, prev, call,
          seal, sealRet, solo, closed, votes, majority, vote, verified,
          twoThirds, twoThirdsRet>>

ordVars == <<lhs, rhs, ordering>>
codecVars == <<msg, wire, decoded>>
stateVars == <<state, ret>>
proposalVars == <<proposal, prev, call>>
sealVars == <<seal, sealRet>>
soloVars == <<solo, closed>>
voteVars == <<votes, majority>>
verifyVars == <<vote, verified>>
twoThirdsVars == <<twoThirds, twoThirdsRet>>

(***************************************************************************)
(* Bounds of the model.                                                    *)
(***************************************************************************)
MaxHeight == 2
MaxView == 2
MaxBatch == 2
MaxWait == 2
MaxProposals == 2
MaxPriority == 2

(***************************************************************************)
(* Option<T>: None is the empty sequence, Some(x) the one-element one.     *)
(* Result<T, E>: a record with the flag ok and the value or the error.     *)
(***************************************************************************)
None == <<>>
Some(x) == <<x>>
IsSome(o) == Len(o) = 1
IsNone(o) == Len(o) = 0
Unwrap(o) == o[1]

Ok(x) == [ok |-> TRUE, v |-> x]
Err(e) == [ok |-> FALSE, v |-> e]

Idle == "idle"

(***************************************************************************)
(* Step and VoteStep (types.rs, message.rs).                               *)
(***************************************************************************)
Steps == {"Propose", "Prevote", "Precommit", "Commit"}

StepNumber(step) ==
    CASE step = "Propose" -> 0
      [] step = "Prevote" -> 1
      [] step = "Precommit" -> 2
      [] step = "Commit" -> 3

Heights == 0 .. MaxHeight
Views == (0 .. MaxView) \cup {123, 300}

VoteStepNew(height, view, step) == [height |-> height, view |-> view, step |-> step]

VoteSteps == {VoteStepNew(h, v, s) : h \in Heights, v \in 0 .. MaxView, s \in Steps}

\* Ord for the unsigned integers
IntCmp(x, y) == IF x < y THEN "Less" ELSE IF x = y THEN "Equal" ELSE "Greater"

\* a cmp that forgets the view
VoteStepCmpNoView(self, m) ==
    IF self.height # m.height
    THEN IntCmp(self.height, m.height)
    ELSE IntCmp(StepNumber(self.step), StepNumber(m.step))

\* impl Ord for VoteStep
VoteStepCmp(self, m) ==
    IF self.height # m.height
    THEN IntCmp(self.height, m.height)
    ELSE IF self.view # m.view
         THEN IntCmp(self.view, m.view)
         ELSE IntCmp(StepNumber(self.step), StepNumber(m.step))

\* impl PartialOrd for VoteStep: a < b
VoteStepLt(x, y) == VoteStepCmp(x, y) = "Less"

InitOrd ==
    /\ lhs \in VoteSteps
    /\ rhs \in VoteSteps
    /\ ordering = None
    /\ msg = None /\ wire = None /\ decoded = None
    /\ state = Idle /\ ret = None
    /\ proposal = <<>> /\ prev = <<>> /\ call = None
    /\ seal = Idle /\ sealRet = None /\ solo = Idle /\ closed = None
    /\ votes = Idle /\ majority = None /\ vote = Idle /\ verified = None
    /\ twoThirds = Idle /\ twoThirdsRet = None

\* a.cmp(&b) and b.cmp(&a) are evaluated
Compare ==
    /\ ordering = None
    /\ ordering' = Some([ab |-> VoteStepCmp(lhs, rhs), ba |-> VoteStepCmp(rhs, lhs)])
    /\ UNCHANGED <<lhs, rhs>>
    /\ UNCHANGED <<codecVars, stateVars, proposalVars,
                 sealVars, soloVars, voteVars, verifyVars, twoThirdsVars>>

NextOrd == Compare

SpecOrd == InitOrd /\ [][NextOrd]_vars

(***************************************************************************)
(* C1                                                                      *)
(***************************************************************************)
LexLess(x, y) ==
    \/ x.height < y.height
    \/ x.height = y.height /\ x.view < y.view
    \/ x.height = y.height /\ x.view = y.view /\ StepNumber(x.step) < StepNumber(y.step)

OneOf(p, q, r) == (p /\ ~q /\ ~r) \/ (~p /\ q /\ ~r) \/ (~p /\ ~q /\ r)

\* C1: a < b exactly when (height, view, step.number()) of a is lexicographically
\* smaller than that of b; the order is irreflexive, transitive and total (exactly
\* one of a < b, a = b, b < a), and cmp returns Equal exactly when a = b.
C1_VoteStepOrder ==
    IsSome(ordering) =>
        LET ab == Unwrap(ordering).ab
            ba == Unwrap(ordering).ba
        IN  /\ (ab = "Less") <=> LexLess(lhs, rhs)
            /\ (ba = "Less") <=> LexLess(rhs, lhs)
            /\ (ab = "Equal") <=> (lhs = rhs)
            /\ OneOf(ab = "Less", lhs = rhs, ba = "Less")
            /\ ~VoteStepLt(lhs, lhs)
            /\ \A c \in VoteSteps : (ab = "Less" /\ VoteStepLt(rhs, c)) => VoteStepLt(lhs, c)

\* two VoteSteps that differ in the view only have been compared
C1_Witness ==
    /\ IsSome(ordering)
    /\ lhs.height = rhs.height /\ lhs.view < rhs.view
    /\ StepNumber(lhs.step) > StepNumber(rhs.step)
    /\ Unwrap(ordering).ab = "Less"

(***************************************************************************)
(* The codec's primitives.  An encoded value is an RLP item: a byte string *)
(* Str(b) or a list List(items) of items, a pair of its kind and its       *)
(* payload; the length prefixes that frame the items in the byte stream    *)
(* are not modelled.                                                       *)
(***************************************************************************)
Str(b) == <<"str", b>>
List(items) == <<"list", items>>
IsStr(rlp) == rlp[1] = "str"
IsList(rlp) == rlp[1] = "list"

\* an unsigned integer as a minimal big-endian byte string: zero is the empty string
RECURSIVE ToBytes(_)
ToBytes(n) == IF n = 0 THEN <<>> ELSE Append(ToBytes(n \div 256), n % 256)

RECURSIVE FromBytes(_)
FromBytes(b) ==
    IF Len(b) = 0 THEN 0 ELSE 256 * FromBytes(SubSeq(b, 1, Len(b) - 1)) + b[Len(b)]

EncodeUint(n) == Str(ToBytes(n))

\* an unsigned integer of at most `width` bytes, without leading zero bytes
DecodeUint(rlp, width) ==
    IF ~IsStr(rlp) THEN Err(<<"RlpExpectedToBeData">>)
    ELSE IF Len(rlp[2]) > width THEN Err(<<"RlpIsTooBig">>)
    ELSE IF Len(rlp[2]) > 0 /\ rlp[2][1] = 0 THEN Err(<<"RlpInvalidIndirection">>)
    ELSE Ok(FromBytes(rlp[2]))

DecodeU8(rlp) == DecodeUint(rlp, 1)
DecodeU64(rlp) == DecodeUint(rlp, 8)

\* Bytes (Vec<u8>)
EncodeBytes(b) == Str(b)
DecodeBytes(rlp) == IF IsStr(rlp) THEN Ok(rlp[2]) ELSE Err(<<"RlpExpectedToBeData">>)

\* fixed-width values: H256 (a block hash) and SchnorrSignature; the widths are scaled down
HashLen == 1
SigLen == 2 * HashLen
ZeroHash == [i \in 1 .. HashLen |-> 0]
Hashes == {ZeroHash, [i \in 1 .. HashLen |-> 7]}
Signatures == {[i \in 1 .. SigLen |-> 0], [i \in 1 .. SigLen |-> 200 + i]}

EncodeFixed(h) == Str(h)
DecodeFixed(rlp, width) ==
    IF ~IsStr(rlp) THEN Err(<<"RlpExpectedToBeData">>)
    ELSE IF Len(rlp[2]) < width THEN Err(<<"RlpIsTooShort">>)
    ELSE IF Len(rlp[2]) > width THEN Err(<<"RlpIsTooBig">>)
    ELSE Ok(rlp[2])

DecodeH256(rlp) == DecodeFixed(rlp, HashLen)
DecodeSignature(rlp) == DecodeFixed(rlp, SigLen)

\* Option<T>: the empty byte string when absent, the encoding of the value when present
\* (`encoded` is the encoding of the value, `inner` the result of decoding the item as a T)
EncodeOption(o, encoded) == IF IsNone(o) THEN Str(<<>>) ELSE encoded
DecodeOption(rlp, inner) ==
    IF IsStr(rlp) /\ Len(rlp[2]) = 0 THEN Ok(None)
    ELSE IF inner.ok THEN Ok(Some(inner.v)) ELSE inner
EncodeOptionH256(o) == EncodeOption(o, EncodeFixed(Unwrap(o)))
EncodeOptionView(o) == EncodeOption(o, EncodeUint(Unwrap(o)))
DecodeOptionH256(rlp) == DecodeOption(rlp, DecodeH256(rlp))
DecodeOptionView(rlp) == DecodeOption(rlp, DecodeU64(rlp))

\* BitSet: a bitmap of BitSetBytes bytes over the validator indices, bit i of the
\* bitmap in byte i \div 8
BitSetBytes == 1
BitIndices == 0 .. (8 * BitSetBytes - 1)
RECURSIVE Pow2(_)
Pow2(n) == IF n = 0 THEN 1 ELSE 2 * Pow2(n - 1)
RECURSIVE SumPow2(_)
SumPow2(bits) ==
    IF bits = {} THEN 0
    ELSE LET i == CHOOSE x \in bits : TRUE IN Pow2(i) + SumPow2(bits \ {i})
BitSetByte(bits, j) == SumPow2({i % 8 : i \in {x \in bits : x \div 8 = j - 1}})
EncodeBitSet(bits) == Str([j \in 1 .. BitSetBytes |-> BitSetByte(bits, j)])
DecodeBitSet(rlp) ==
    IF ~IsStr(rlp) THEN Err(<<"RlpExpectedToBeData">>)
    ELSE IF Len(rlp[2]) # BitSetBytes THEN Err(<<"RlpIncorrectListLen", Len(rlp[2]), BitSetBytes>>)
    ELSE Ok({i \in BitIndices : (rlp[2][(i \div 8) + 1] \div Pow2(i % 8)) % 2 = 1})

BitSets == {{}, {1}, {2}, {0, 2}}

\* UntrustedRlp::item_count, at, val_at
ItemCount(rlp) == IF IsList(rlp) THEN Ok(Len(rlp[2])) ELSE Err(<<"RlpExpectedToBeList">>)
At(rlp, index) ==
    IF ~IsList(rlp) THEN Err(<<"RlpExpectedToBeList">>)
    ELSE IF index >= Len(rlp[2]) THEN Err(<<"RlpIsTooShort">>)
    ELSE Ok(rlp[2][index + 1])
\* val_at(index) and at(index)?.as_val() for a value whose decoding of the item is `decoded_item`
ValAt(rlp, index, decoded_item) == IF At(rlp, index).ok THEN decoded_item ELSE At(rlp, index)

\* append_list::<Bytes, Bytes> and list_at for Vec<Bytes>
EncodeBytesList(messages) == List([i \in 1 .. Len(messages) |-> EncodeBytes(messages[i])])
DecodeBytesList(rlp) ==
    IF ~IsList(rlp) THEN Err(<<"RlpExpectedToBeList">>)
    ELSE IF \E i \in 1 .. Len(rlp[2]) : ~IsStr(rlp[2][i]) THEN Err(<<"RlpExpectedToBeData">>)
    ELSE Ok([i \in 1 .. Len(rlp[2]) |-> rlp[2][i][2]])

\* snap::Encoder::compress_vec on a block shorter than the smallest block the
\* encoder searches for copies: the length, then one literal element
SnapCompress(message) ==
    IF Len(message) = 0 THEN <<0>>
    ELSE <<Len(message), (Len(message) - 1) * 4>> \o message

\* snap::Decoder::decompress_vec on a stream of at most one literal element
SnapDecompress(compressed) ==
    IF Len(compressed) = 0 THEN Err(<<"Custom", "Invalid compression format">>)
    ELSE IF compressed[1] = 0
         THEN IF Len(compressed) = 1 THEN Ok(<<>>)
              ELSE Err(<<"Custom", "Invalid compression format">>)
    ELSE IF Len(compressed) < 2 \/ compressed[2] % 4 # 0 \/ compressed[2] \div 4 >= 60
         THEN Err(<<"Custom", "Invalid compression format">>)
    ELSE IF compressed[2] \div 4 + 1 # compressed[1] \/ Len(compressed) # compressed[1] + 2
         THEN Err(<<"Custom", "Invalid compression format">>)
    ELSE Ok(SubSeq(compressed, 3, Len(compressed)))

\* impl Encodable for Step: append_single_value(&self.number())
EncodeStep(step) == EncodeUint(StepNumber(step))

\* a decoder that knows the steps of a view only: Commit is refused
DecodeStepNoCommit(rlp) ==
    LET r == DecodeU8(rlp)
    IN  IF ~r.ok THEN r
        ELSE CASE r.v = 0 -> Ok("Propose")
               [] r.v = 1 -> Ok("Prevote")
               [] r.v = 2 -> Ok("Precommit")
               [] OTHER -> Err(<<"Custom", "Invalid step.">>)

\* impl Decodable for Step
DecodeStep(rlp) ==
    LET r == DecodeU8(rlp)
    IN  IF ~r.ok THEN r
        ELSE CASE r.v = 0 -> Ok("Propose")
               [] r.v = 1 -> Ok("Prevote")
               [] r.v = 2 -> Ok("Precommit")
               [] r.v = 3 -> Ok("Commit")
               [] OTHER -> Err(<<"Custom", "Invalid step.">>)

\* #[derive(RlpEncodable, RlpDecodable)] on VoteStep: one field per list slot
EncodeVoteStep(vs) == List(<<EncodeUint(vs.height), EncodeUint(vs.view), EncodeStep(vs.step)>>)
DecodeVoteStep(rlp) ==
    IF ~IsList(rlp) THEN Err(<<"RlpExpectedToBeList">>)
    ELSE IF Len(rlp[2]) # 3 THEN Err(<<"RlpIncorrectListLen", Len(rlp[2]), 3>>)
    ELSE LET height == DecodeU64(rlp[2][1])
             view == DecodeU64(rlp[2][2])
             step == DecodeStep(rlp[2][3])
         IN  IF ~height.ok THEN height
             ELSE IF ~view.ok THEN view
             ELSE IF ~step.ok THEN step
             ELSE Ok(VoteStepNew(height.v, view.v, step.v))

\* val_at(index) for each type the message decoder reads
Item(rlp, index) == At(rlp, index).v
U8At(rlp, index) == ValAt(rlp, index, DecodeU8(Item(rlp, index)))
U64At(rlp, index) == ValAt(rlp, index, DecodeU64(Item(rlp, index)))
BytesAt(rlp, index) == ValAt(rlp, index, DecodeBytes(Item(rlp, index)))
BytesListAt(rlp, index) == ValAt(rlp, index, DecodeBytesList(Item(rlp, index)))
VoteStepAt(rlp, index) == ValAt(rlp, index, DecodeVoteStep(Item(rlp, index)))
OptionH256At(rlp, index) == ValAt(rlp, index, DecodeOptionH256(Item(rlp, index)))
OptionViewAt(rlp, index) == ValAt(rlp, index, DecodeOptionView(Item(rlp, index)))
BitSetAt(rlp, index) == ValAt(rlp, index, DecodeBitSet(Item(rlp, index)))

(***************************************************************************)
(* TendermintMessage (message.rs).                                         *)
(***************************************************************************)
MESSAGE_ID_CONSENSUS_MESSAGE == 1
MESSAGE_ID_PROPOSAL_BLOCK == 2
MESSAGE_ID_STEP_STATE == 3
MESSAGE_ID_REQUEST_MESSAGE == 4
MESSAGE_ID_REQUEST_PROPOSAL == 5

ConsensusMessageBatch(messages) == [type |-> "ConsensusMessage", messages |-> messages]
ProposalBlock(signature, view, message) ==
    [type |-> "ProposalBlock", signature |-> signature, view |-> view, message |-> message]
StepState(vote_step, prop, lock_view, known_votes) ==
    [type |-> "StepState", vote_step |-> vote_step, proposal |-> prop,
     lock_view |-> lock_view, known_votes |-> known_votes]
RequestMessage(vote_step, requested_votes) ==
    [type |-> "RequestMessage", vote_step |-> vote_step, requested_votes |-> requested_votes]
RequestProposal(height, view) == [type |-> "RequestProposal", height |-> height, view |-> view]

\* impl Encodable for TendermintMessage: rlp_append
EncodeMessage(m) ==
    CASE m.type = "ConsensusMessage" ->
            List(<<EncodeUint(MESSAGE_ID_CONSENSUS_MESSAGE), EncodeBytesList(m.messages)>>)
      [] m.type = "ProposalBlock" ->
            LET compressed == SnapCompress(m.message)
            IN  List(<<EncodeUint(MESSAGE_ID_PROPOSAL_BLOCK), EncodeFixed(m.signature),
                       EncodeUint(m.view), EncodeBytes(compressed)>>)
      [] m.type = "StepState" ->
            List(<<EncodeUint(MESSAGE_ID_STEP_STATE), EncodeVoteStep(m.vote_step),
                   EncodeOptionH256(m.proposal), EncodeOptionView(m.lock_view),
                   EncodeBitSet(m.known_votes)>>)
      [] m.type = "RequestMessage" ->
            List(<<EncodeUint(MESSAGE_ID_REQUEST_MESSAGE), EncodeVoteStep(m.vote_step),
                   EncodeBitSet(m.requested_votes)>>)
      [] m.type = "RequestProposal" ->
            List(<<EncodeUint(MESSAGE_ID_REQUEST_PROPOSAL), EncodeUint(m.height),
                   EncodeUint(m.view)>>)

IncorrectListLen(got, expected) == Err(<<"RlpIncorrectListLen", got, expected>>)

DecodeConsensusMessage(rlp) ==
    LET item_count == ItemCount(rlp)
    IN  IF ~item_count.ok THEN item_count
        ELSE IF item_count.v # 2 THEN IncorrectListLen(item_count.v, 2)
        ELSE LET messages == BytesListAt(rlp, 1)
             IN  IF ~messages.ok THEN messages ELSE Ok(ConsensusMessageBatch(messages.v))

DecodeProposalBlock(rlp) ==
    LET item_count == ItemCount(rlp)
    IN  IF ~item_count.ok THEN item_count
        ELSE IF item_count.v # 4 THEN IncorrectListLen(item_count.v, 4)
        ELSE LET signature == At(rlp, 1)
                 view == At(rlp, 2)
                 compressed_message == BytesAt(rlp, 3)
             IN  IF ~signature.ok THEN signature
                 ELSE IF ~view.ok THEN view
                 ELSE IF ~compressed_message.ok THEN compressed_message
                 ELSE LET uncompressed_message == SnapDecompress(compressed_message.v)
                          sig == DecodeSignature(signature.v)
                          vw == DecodeU64(view.v)
                      IN  IF ~uncompressed_message.ok THEN uncompressed_message
                          ELSE IF ~sig.ok THEN sig
                          ELSE IF ~vw.ok THEN vw
                          ELSE Ok(ProposalBlock(sig.v, vw.v, uncompressed_message.v))

DecodeStepState(rlp) ==
    LET item_count == ItemCount(rlp)
    IN  IF ~item_count.ok THEN item_count
        ELSE IF item_count.v # 5 THEN IncorrectListLen(item_count.v, 5)
        ELSE LET vote_step == VoteStepAt(rlp, 1)
                 prop == OptionH256At(rlp, 2)
                 lock_view == OptionViewAt(rlp, 3)
                 known_votes == BitSetAt(rlp, 4)
             IN  IF ~vote_step.ok THEN vote_step
                 ELSE IF ~prop.ok THEN prop
                 ELSE IF ~lock_view.ok THEN lock_view
                 ELSE IF ~known_votes.ok THEN known_votes
                 ELSE Ok(StepState(vote_step.v, prop.v, lock_view.v, known_votes.v))

DecodeRequestMessage(rlp) ==
    LET item_count == ItemCount(rlp)
    IN  IF ~item_count.ok THEN item_count
        ELSE IF item_count.v # 3 THEN IncorrectListLen(item_count.v, 3)
        ELSE LET vote_step == VoteStepAt(rlp, 1)
                 requested_votes == BitSetAt(rlp, 2)
             IN  IF ~vote_step.ok THEN vote_step
                 ELSE IF ~requested_votes.ok THEN requested_votes
                 ELSE Ok(RequestMessage(vote_step.v, requested_votes.v))

\* a decoder that takes the items it needs and does not look at the item count
DecodeRequestProposalAnyLen(rlp) ==
    LET height == U64At(rlp, 1)
        view == U64At(rlp, 2)
    IN  IF ~height.ok THEN height
        ELSE IF ~view.ok THEN view
        ELSE Ok(RequestProposal(height.v, view.v))

DecodeRequestProposal(rlp) ==
    LET item_count == ItemCount(rlp)
    IN  IF ~item_count.ok THEN item_count
        ELSE IF item_count.v # 3 THEN IncorrectListLen(item_count.v, 3)
        ELSE LET height == U64At(rlp, 1)
                 view == U64At(rlp, 2)
             IN  IF ~height.ok THEN height
                 ELSE IF ~view.ok THEN view
                 ELSE Ok(RequestProposal(height.v, view.v))

\* a decoder that takes every id above the known ones for a RequestProposal
DecodeMessageNoDefault(rlp) ==
    LET id == U8At(rlp, 0)
    IN  IF ~id.ok THEN id
        ELSE CASE id.v = MESSAGE_ID_CONSENSUS_MESSAGE -> DecodeConsensusMessage(rlp)
               [] id.v = MESSAGE_ID_PROPOSAL_BLOCK -> DecodeProposalBlock(rlp)
               [] id.v = MESSAGE_ID_STEP_STATE -> DecodeStepState(rlp)
               [] id.v = MESSAGE_ID_REQUEST_MESSAGE -> DecodeRequestMessage(rlp)
               [] id.v >= MESSAGE_ID_REQUEST_PROPOSAL -> DecodeRequestProposal(rlp)
               [] OTHER -> Err(<<"Custom", "Unknown message id detected">>)

\* impl Decodable for TendermintMessage: decode
DecodeMessage(rlp) ==
    LET id == U8At(rlp, 0)
    IN  IF ~id.ok THEN id
        ELSE CASE id.v = MESSAGE_ID_CONSENSUS_MESSAGE -> DecodeConsensusMessage(rlp)
               [] id.v = MESSAGE_ID_PROPOSAL_BLOCK -> DecodeProposalBlock(rlp)
               [] id.v = MESSAGE_ID_STEP_STATE -> DecodeStepState(rlp)
               [] id.v = MESSAGE_ID_REQUEST_MESSAGE -> DecodeRequestMessage(rlp)
               [] id.v = MESSAGE_ID_REQUEST_PROPOSAL -> DecodeRequestProposal(rlp)
               [] OTHER -> Err(<<"Custom", "Unknown message id detected">>)

(***************************************************************************)
(* The messages and the envelopes of the model.                            *)
(***************************************************************************)
SeqsUpTo(S, n) == UNION {[1 .. k -> S] : k \in 0 .. n}

ByteStrings == {<<>>, <<0>>, <<1, 2>>, <<3, 4>>}

Messages ==
    {ConsensusMessageBatch(b) : b \in SeqsUpTo(ByteStrings, MaxBatch)}
    \cup {ProposalBlock(s, v, m) : s \in Signatures, v \in Views, m \in ByteStrings}
    \cup {StepState(vs, p, lv, kv) :
            vs \in VoteSteps, p \in {None} \cup {Some(h) : h \in Hashes},
            lv \in {None} \cup {Some(v) : v \in Views}, kv \in BitSets}
    \cup {RequestMessage(vs, rv) : vs \in VoteSteps, rv \in BitSets}
    \cup {RequestProposal(h, v) : h \in Heights, v \in Views}

\* what a peer may send: any list of a few items behind any one-byte id
MaxTag == 6
MaxItems == 4
JunkItems == {Str(<<>>), Str(<<1>>), List(<<>>)}
Envelopes ==
    {List(<<EncodeUint(t)>> \o items) :
        t \in (0 .. MaxTag) \cup {255}, items \in SeqsUpTo(JunkItems, MaxItems)}
    \cup {List(<<>>), Str(<<1>>)}

InitCodec ==
    /\ msg \in {None} \cup {Some(m) : m \in Messages}
    /\ wire = None
    /\ decoded = None
    /\ lhs = Idle /\ rhs = Idle /\ ordering = None
    /\ state = Idle /\ ret = None
    /\ proposal = <<>> /\ prev = <<>> /\ call = None
    /\ seal = Idle /\ sealRet = None /\ solo = Idle /\ closed = None
    /\ votes = Idle /\ majority = None /\ vote = Idle /\ verified = None
    /\ twoThirds = Idle /\ twoThirdsRet = None

\* m.rlp_bytes()
Encode ==
    /\ IsSome(msg) /\ wire = None
    /\ wire' = Some(EncodeMessage(Unwrap(msg)))
    /\ UNCHANGED <<msg, decoded>>
    /\ UNCHANGED <<ordVars, stateVars, proposalVars,
                 sealVars, soloVars, voteVars, verifyVars, twoThirdsVars>>

\* bytes arrive from a peer
Receive ==
    /\ msg = None /\ wire = None
    /\ \E e \in Envelopes : wire' = Some(e)
    /\ UNCHANGED <<msg, decoded>>
    /\ UNCHANGED <<ordVars, stateVars, proposalVars,
                 sealVars, soloVars, voteVars, verifyVars, twoThirdsVars>>

\* an encoded message loses its last item or gains one on the way
Tamper ==
    /\ IsSome(msg) /\ IsSome(wire) /\ decoded = None
    /\ \E items \in {SubSeq(Unwrap(wire)[2], 1, Len(Unwrap(wire)[2]) - 1)}
                    \cup {Unwrap(wire)[2] \o <<x>> : x \in JunkItems} :
          wire' = Some(List(items))
    /\ msg' = None
    /\ UNCHANGED decoded
    /\ UNCHANGED <<ordVars, stateVars, proposalVars,
                 sealVars, soloVars, voteVars, verifyVars, twoThirdsVars>>

\* rlp::decode::<TendermintMessage>(&bytes)
Decode ==
    /\ IsSome(wire) /\ decoded = None
    /\ decoded' = Some(DecodeMessage(Unwrap(wire)))
    /\ UNCHANGED <<msg, wire>>
    /\ UNCHANGED <<ordVars, stateVars, proposalVars,
                 sealVars, soloVars, voteVars, verifyVars, twoThirdsVars>>

NextCodec == Encode \/ Receive \/ Tamper \/ Decode

SpecCodec == InitCodec /\ [][NextCodec]_vars

(***************************************************************************)
(* C2, C3, C4                                                              *)
(***************************************************************************)
Decoded == Unwrap(decoded)
Wire == Unwrap(wire)

\* C2: for every TendermintMessage m of the five variants, decoding the encoding
\* of m succeeds and yields a message equal to m.
C2_RoundTrip ==
    (IsSome(msg) /\ IsSome(decoded)) => (Decoded.ok /\ Decoded.v = Unwrap(msg))

\* every message but a StepState with lock_view = Some(0) does come back as it was
C2_RoundTripButZeroLockView ==
    (/\ IsSome(msg) /\ IsSome(decoded)
     /\ ~(Unwrap(msg).type = "StepState" /\ Unwrap(msg).lock_view = Some(0)))
        => (Decoded.ok /\ Decoded.v = Unwrap(msg))

\* the wire holds a list whose first item is the one-byte id t
HasTag(rlp, t) == IsList(rlp) /\ Len(rlp[2]) >= 1 /\ rlp[2][1] = Str(ToBytes(t))

KnownTags == 1 .. 5
Arity(t) == CASE t = 1 -> 2 [] t = 2 -> 4 [] t = 3 -> 5 [] t = 4 -> 3 [] t = 5 -> 3

\* C3: an envelope with a tag 0x01..0x05 decodes to a message only if the list has
\* the fixed number of items of the tag (2, 4, 5, 3, 3, tag included); with any
\* other number of items the decoder returns an incorrect-list-length error.
C3_FixedArity ==
    IsSome(decoded) =>
        \A t \in KnownTags :
            HasTag(Wire, t) =>
                /\ Decoded.ok => Len(Wire[2]) = Arity(t)
                /\ Len(Wire[2]) # Arity(t) =>
                      /\ ~Decoded.ok
                      /\ Decoded.v = <<"RlpIncorrectListLen", Len(Wire[2]), Arity(t)>>

\* an encoded StepState that gained a sixth item was refused for its length
C3_Witness ==
    /\ IsSome(decoded) /\ HasTag(Wire, 3) /\ Len(Wire[2]) = 6
    /\ ~Decoded.ok /\ Decoded.v[1] = "RlpIncorrectListLen"

\* C4: an envelope whose first element is a tag outside 0x01..0x05 decodes to the
\* error Custom("Unknown message id detected"), whatever its length and its
\* other items.
C4_UnknownTag ==
    IsSome(decoded) =>
        \A t \in (0 .. 255) \ KnownTags :
            HasTag(Wire, t) =>
                /\ ~Decoded.ok
                /\ Decoded.v = <<"Custom", "Unknown message id detected">>

\* an envelope with the id 6 and the three items of a RequestProposal was refused
C4_Witness ==
    /\ IsSome(decoded) /\ HasTag(Wire, 6) /\ Len(Wire[2]) = 3
    /\ IsStr(Wire[2][2]) /\ IsStr(Wire[2][3])
    /\ ~Decoded.ok /\ Decoded.v[1] = "Custom"

(***************************************************************************)
(* TendermintState and ProposeInner (types.rs).                            *)
(***************************************************************************)
\* a PriorityMessage, of which the model keeps the priority
PriorityMessages == {[priority |-> p] : p \in 0 .. MaxPriority}
Priority(priority_message) == priority_message.priority

\* a SealedBlock, of which the model keeps the hash of the header
SealedBlocks == {[hash |-> h] : h \in Hashes}
HeaderHash(sealed_block) == sealed_block.hash

Propose(inner) ==
    [tag |-> "Propose", wait_block_generation |-> inner.wait_block_generation,
     wait_imported |-> inner.wait_imported, is_timed_out |-> inner.is_timed_out]
Inner(self) ==
    [wait_block_generation |-> self.wait_block_generation,
     wait_imported |-> self.wait_imported, is_timed_out |-> self.is_timed_out]
Prevote == [tag |-> "Prevote"]
Precommit == [tag |-> "Precommit"]
Commit(view, block_hash) == [tag |-> "Commit", view |-> view, block_hash |-> block_hash]
CommitTimedout(view, block_hash) ==
    [tag |-> "CommitTimedout", view |-> view, block_hash |-> block_hash]

IsPropose(self) == self.tag = "Propose"

\* TendermintState::new_propose_step
NewProposeStep ==
    Propose([wait_block_generation |-> None, wait_imported |-> <<>>, is_timed_out |-> FALSE])

\* an is_propose_step_ended that does not look at the pending imports
InnerIsProposeStepEndedNoImports(inner) ==
    IsNone(inner.wait_block_generation) /\ inner.is_timed_out

\* ProposeInner::is_propose_step_ended
InnerIsProposeStepEnded(inner) ==
    IsNone(inner.wait_block_generation) /\ Len(inner.wait_imported) = 0 /\ inner.is_timed_out

\* ProposeInner::mark_timed_out_if_propose_step
InnerMarkTimedOut(inner) == [inner EXCEPT !.is_timed_out = TRUE]

\* a generation_completed that reads the awaited pair and leaves it in place
InnerGenerationCompletedKeeping(inner) == <<inner, inner.wait_block_generation>>

\* ProposeInner::generation_completed: Option::take, as <<the inner after, the value>>
InnerGenerationCompleted(inner) ==
    <<[inner EXCEPT !.wait_block_generation = None], inner.wait_block_generation>>

\* ProposeInner::generation_halted
InnerGenerationHalted(inner) == [inner EXCEPT !.wait_block_generation = None]

\* Iterator::position: the first index (from 0) whose block has the hash, if any
Position(wait_imported, target_block_hash) ==
    LET hits == {i \in 1 .. Len(wait_imported) :
                    HeaderHash(wait_imported[i][2]) = target_block_hash}
    IN  IF hits = {} THEN None
        ELSE Some((CHOOSE i \in hits : \A j \in hits : i <= j) - 1)

\* Vec::remove(position) and Vec::insert(0, x)
Remove(vec, position) ==
    SubSeq(vec, 1, position) \o SubSeq(vec, position + 2, Len(vec))
InsertFront(vec, x) == <<x>> \o vec

\* ProposeInner::import_completed, as <<the inner after, the value>>
InnerImportCompleted(inner, target_block_hash) ==
    LET position == Position(inner.wait_imported, target_block_hash)
    IN  IF IsNone(position) THEN <<inner, None>>
        ELSE <<[inner EXCEPT !.wait_imported = Remove(@, Unwrap(position))],
               Some(inner.wait_imported[Unwrap(position) + 1])>>

\* ProposeInner::wait_block_generation
InnerWaitBlockGeneration(inner, my_priority_message, parent_hash) ==
    [inner EXCEPT !.wait_block_generation = Some(<<my_priority_message, parent_hash>>)]

\* a wait_imported that pushes the block at the end of the vector
InnerWaitImportedAtEnd(inner, target_priority_message, target_block) ==
    [inner EXCEPT !.wait_imported = Append(@, <<target_priority_message, target_block>>)]

\* ProposeInner::wait_imported
InnerWaitImported(inner, target_priority_message, target_block) ==
    [inner EXCEPT !.wait_imported = InsertFront(@, <<target_priority_message, target_block>>)]

\* an is_propose_step_ended that holds the propose step for ended once it was left
IsProposeStepEndedOncePast(self) ==
    IF IsPropose(self) THEN InnerIsProposeStepEnded(Inner(self)) ELSE TRUE

\* TendermintState::is_propose_step_ended
IsProposeStepEnded(self) ==
    IF IsPropose(self) THEN InnerIsProposeStepEnded(Inner(self)) ELSE FALSE

\* TendermintState::to_step
ToStep(self) ==
    CASE self.tag = "Propose" -> "Propose"
      [] self.tag = "Prevote" -> "Prevote"
      [] self.tag = "Precommit" -> "Precommit"
      [] self.tag = "Commit" -> "Commit"
      [] self.tag = "CommitTimedout" -> "Commit"

\* TendermintState::is_commit
IsCommit(self) ==
    CASE self.tag = "Commit" -> TRUE
      [] self.tag = "CommitTimedout" -> TRUE
      [] OTHER -> FALSE

\* TendermintState::is_commit_timedout
IsCommitTimedout(self) ==
    CASE self.tag = "CommitTimedout" -> TRUE
      [] OTHER -> FALSE

\* a committed() that gives the commit up once the commit step has timed out
CommittedUntilTimedout(self) ==
    CASE self.tag = "Commit" -> Some(<<self.view, self.block_hash>>)
      [] OTHER -> None

\* TendermintState::committed
Committed(self) ==
    CASE self.tag = "Commit" -> Some(<<self.view, self.block_hash>>)
      [] self.tag = "CommitTimedout" -> Some(<<self.view, self.block_hash>>)
      [] self.tag = "Propose" -> None
      [] self.tag = "Prevote" -> None
      [] self.tag = "Precommit" -> None

Returned(op, value) == Some([op |-> op, v |-> value])

\* the record of a call on the state: the operation, its arguments, the state it
\* was called on and the value it returned
ReturnedOn(op, args, value) ==
    Some([op |-> op, v |-> value, args |-> args, before |-> state])

InitState ==
    /\ state \in {NewProposeStep, Prevote, Precommit}
                 \cup {Commit(v, h) : v \in 0 .. MaxView, h \in Hashes}
                 \cup {CommitTimedout(v, h) : v \in 0 .. MaxView, h \in Hashes}
    /\ ret = None
    /\ lhs = Idle /\ rhs = Idle /\ ordering = None
    /\ msg = None /\ wire = None /\ decoded = None
    /\ proposal = <<>> /\ prev = <<>> /\ call = None
    /\ seal = Idle /\ sealRet = None /\ solo = Idle /\ closed = None
    /\ votes = Idle /\ majority = None /\ vote = Idle /\ verified = None
    /\ twoThirds = Idle /\ twoThirdsRet = None

\* TendermintState::mark_timed_out_if_propose_step
MarkTimedOutIfProposeStep ==
    /\ state' = IF IsPropose(state) THEN Propose(InnerMarkTimedOut(Inner(state))) ELSE state
    /\ ret' = ReturnedOn("mark_timed_out_if_propose_step", <<>>, None)
    /\ UNCHANGED <<ordVars, codecVars, proposalVars,
                 sealVars, soloVars, voteVars, verifyVars, twoThirdsVars>>

\* TendermintState::generation_completed
GenerationCompleted ==
    /\ IF IsPropose(state)
       THEN LET r == InnerGenerationCompleted(Inner(state))
            IN  state' = Propose(r[1]) /\ ret' = ReturnedOn("generation_completed", <<>>, r[2])
       ELSE state' = state /\ ret' = ReturnedOn("generation_completed", <<>>, None)
    /\ UNCHANGED <<ordVars, codecVars, proposalVars,
                 sealVars, soloVars, voteVars, verifyVars, twoThirdsVars>>

\* TendermintState::generation_halted
GenerationHalted ==
    /\ state' = IF IsPropose(state) THEN Propose(InnerGenerationHalted(Inner(state))) ELSE state
    /\ ret' = ReturnedOn("generation_halted", <<>>, None)
    /\ UNCHANGED <<ordVars, codecVars, proposalVars,
                 sealVars, soloVars, voteVars, verifyVars, twoThirdsVars>>

\* TendermintState::import_completed
ImportCompleted ==
    /\ \E target_block_hash \in Hashes :
          IF IsPropose(state)
          THEN LET r == InnerImportCompleted(Inner(state), target_block_hash)
               IN  /\ state' = Propose(r[1])
                   /\ ret' = ReturnedOn("import_completed", <<target_block_hash>>, r[2])
          ELSE state' = state /\ ret' = ReturnedOn("import_completed", <<target_block_hash>>, None)
    /\ UNCHANGED <<ordVars, codecVars, proposalVars,
                 sealVars, soloVars, voteVars, verifyVars, twoThirdsVars>>

\* TendermintState::wait_block_generation
WaitBlockGeneration ==
    /\ \E my_priority_message \in PriorityMessages, parent_hash \in Hashes :
          /\ state' = IF IsPropose(state)
                      THEN Propose(InnerWaitBlockGeneration(Inner(state), my_priority_message,
                                                            parent_hash))
                      ELSE state
          /\ ret' = ReturnedOn("wait_block_generation", <<my_priority_message, parent_hash>>,
                                None)
    /\ UNCHANGED <<ordVars, codecVars, proposalVars,
                 sealVars, soloVars, voteVars, verifyVars, twoThirdsVars>>

\* TendermintState::wait_imported; the model stops at MaxWait pending blocks
WaitImported ==
    /\ IsPropose(state) => Len(state.wait_imported) < MaxWait
    /\ \E target_priority_message \in PriorityMessages, target_block \in SealedBlocks :
          /\ state' = IF IsPropose(state)
                      THEN Propose(InnerWaitImported(Inner(state), target_priority_message,
                                                     target_block))
                      ELSE state
          /\ ret' = ReturnedOn("wait_imported", <<target_priority_message, target_block>>,
                                None)
    /\ UNCHANGED <<ordVars, codecVars, proposalVars,
                 sealVars, soloVars, voteVars, verifyVars, twoThirdsVars>>

\* to_step(), is_commit(), is_commit_timedout() and committed() on the state
Queries ==
    /\ ret' = Returned("queries", [to_step |-> ToStep(state), is_commit |-> IsCommit(state),
                                   is_commit_timedout |-> IsCommitTimedout(state),
                                   committed |-> Committed(state)])
    /\ UNCHANGED state
    /\ UNCHANGED <<ordVars, codecVars, proposalVars,
                 sealVars, soloVars, voteVars, verifyVars, twoThirdsVars>>

NextState ==
    \/ Queries
    \/ MarkTimedOutIfProposeStep
    \/ GenerationCompleted
    \/ GenerationHalted
    \/ ImportCompleted
    \/ WaitBlockGeneration
    \/ WaitImported

SpecState == InitState /\ [][NextState]_vars

(***************************************************************************)
(* C5                                                                      *)
(***************************************************************************)
LastOp == IF IsSome(ret) THEN Unwrap(ret).op ELSE "none"

\* C5: in every state, is_propose_step_ended() is true exactly when the state is
\* Propose, no block generation is awaited, no import is pending and the timeout
\* has been marked; a fresh Propose state is not ended, and marking the timeout
\* with no waits pending ends it.
C5_ProposeStepEnded ==
    /\ IsProposeStepEnded(state) <=>
          /\ state.tag = "Propose"
          /\ state.wait_block_generation = None
          /\ state.wait_imported = <<>>
          /\ state.is_timed_out
    /\ ~IsProposeStepEnded(NewProposeStep)
    /\ (/\ LastOp = "mark_timed_out_if_propose_step"
        /\ state.tag = "Propose"
        /\ state.wait_block_generation = None
        /\ state.wait_imported = <<>>) => IsProposeStepEnded(state)

\* the timeout was marked while an import was pending; the import then completed
C5_Witness ==
    /\ LastOp = "import_completed" /\ IsSome(Unwrap(ret).v)
    /\ state.tag = "Propose" /\ state.is_timed_out
    /\ state.wait_imported = <<>> /\ state.wait_block_generation = None
    /\ IsProposeStepEnded(state)

(***************************************************************************)
(* ProposalInfo and Proposal (types.rs).                                   *)
(***************************************************************************)
ProposalInfo(block_hash, priority_message, block, signature, is_imported) ==
    [block_hash |-> block_hash, priority_message |-> priority_message, block |-> block,
     signature |-> signature, is_imported |-> is_imported]

\* the bytes of the block with the hash h
BlockBytes(h) == <<16>> \o h

\* Proposal::new
ProposalNew == <<>>

\* a new_highest that pushes the entry at the end of the vector
ProposalNewHighestAtEnd(self, block_hash, priority_message, block, signature) ==
    Append(self, ProposalInfo(block_hash, priority_message, block, signature, FALSE))

\* Proposal::new_highest
ProposalNewHighest(self, block_hash, priority_message, block, signature) ==
    InsertFront(self, ProposalInfo(block_hash, priority_message, block, signature, FALSE))

\* Proposal::get_highest_proposal_info
GetHighestProposalInfo(self) == IF Len(self) > 0 THEN Some(self[1]) ELSE None

\* Proposal::get_highest_priority
GetHighestPriority(self) ==
    IF Len(self) > 0 THEN Some(Priority(self[1].priority_message)) ELSE None

\* Iterator::find: the first of the indices (from 1) of the entries that satisfy the
\* test, or 0
FirstIndex(hits) == IF hits = {} THEN 0 ELSE CHOOSE i \in hits : \A j \in hits : i <= j

\* a new_imported that marks every entry with the hash
ProposalNewImportedAll(self, block_hash) ==
    <<[i \in 1 .. Len(self) |->
          IF self[i].block_hash = block_hash THEN [self[i] EXCEPT !.is_imported = TRUE]
          ELSE self[i]],
      \E i \in 1 .. Len(self) : self[i].block_hash = block_hash>>

\* a new_imported that flips the flag of the entry it finds
ProposalNewImportedFlip(self, block_hash) ==
    LET found == FirstIndex({i \in 1 .. Len(self) : self[i].block_hash = block_hash})
    IN  IF found # 0 THEN <<[self EXCEPT ![found].is_imported = ~@], TRUE>>
        ELSE <<self, FALSE>>

\* Proposal::new_imported, as <<the store after, the value>>
ProposalNewImported(self, block_hash) ==
    LET found == FirstIndex({i \in 1 .. Len(self) : self[i].block_hash = block_hash})
    IN  IF found # 0 THEN <<[self EXCEPT ![found].is_imported = TRUE], TRUE>>
        ELSE <<self, FALSE>>

\* a block_hash that reports imported entries only
ProposalBlockHashOfImported(self) ==
    IF Len(self) > 0 /\ self[1].is_imported THEN Some(self[1].block_hash) ELSE None

\* Proposal::block_hash
ProposalBlockHash(self) == IF Len(self) > 0 THEN Some(self[1].block_hash) ELSE None

\* an imported_block_hash that looks at the head entry only
ProposalImportedBlockHashOfHead(self) ==
    IF Len(self) > 0 /\ self[1].is_imported THEN Some(self[1].block_hash) ELSE None

\* Proposal::imported_block_hash
ProposalImportedBlockHash(self) ==
    LET found == FirstIndex({i \in 1 .. Len(self) : self[i].is_imported})
    IN  IF found # 0 THEN Some(self[found].block_hash) ELSE None

InitProposal ==
    /\ proposal = ProposalNew
    /\ prev = ProposalNew
    /\ call = None
    /\ lhs = Idle /\ rhs = Idle /\ ordering = None
    /\ msg = None /\ wire = None /\ decoded = None
    /\ state = Idle /\ ret = None
    /\ seal = Idle /\ sealRet = None /\ solo = Idle /\ closed = None
    /\ votes = Idle /\ majority = None /\ vote = Idle /\ verified = None
    /\ twoThirds = Idle /\ twoThirdsRet = None

\* Proposal::new_highest is called; the model stops at MaxProposals entries
NewHighest ==
    /\ Len(proposal) < MaxProposals
    /\ \E block_hash \in Hashes, priority_message \in PriorityMessages,
          signature \in Signatures :
          /\ proposal' = ProposalNewHighest(proposal, block_hash, priority_message,
                                            BlockBytes(block_hash), signature)
          /\ call' = Some([op |-> "new_highest", block_hash |-> block_hash,
                           priority_message |-> priority_message,
                           block |-> BlockBytes(block_hash), signature |-> signature,
                           result |-> FALSE])
    /\ prev' = proposal
    /\ UNCHANGED <<ordVars, codecVars, stateVars,
                 sealVars, soloVars, voteVars, verifyVars, twoThirdsVars>>

\* Proposal::new_imported is called
NewImported ==
    /\ \E block_hash \in Hashes :
          LET r == ProposalNewImported(proposal, block_hash)
          IN  /\ proposal' = r[1]
              /\ call' = Some([op |-> "new_imported", block_hash |-> block_hash,
                               result |-> r[2]])
    /\ prev' = proposal
    /\ UNCHANGED <<ordVars, codecVars, stateVars,
                 sealVars, soloVars, voteVars, verifyVars, twoThirdsVars>>

NextProposal == NewHighest \/ NewImported

SpecProposal == InitProposal /\ [][NextProposal]_vars

(***************************************************************************)
(* C6 .. C10                                                               *)
(***************************************************************************)
Call == Unwrap(call)
Called(op) == IsSome(call) /\ Call.op = op

PriorityAt(self, i) == self[i].priority_message.priority

\* the entries are in non-increasing priority order from index 0 to the end
Ordered(self) == \A i \in 1 .. Len(self) - 1 : PriorityAt(self, i) >= PriorityAt(self, i + 1)

\* C6 as stated: after any sequence of new_highest and new_imported calls the
\* stored entries are in non-increasing priority order.
C6_AlwaysOrdered == Ordered(proposal)

\* C6 as amended: a call keeps the entries in non-increasing priority order when
\* the store was in that order before it and, for new_highest, the priority given
\* is not lower than that of the entry at the head; new_highest does not compare
\* the priorities itself.
C6_OrderedWhenCallerOrders ==
    /\ (/\ Called("new_highest")
        /\ Ordered(prev)
        /\ Len(prev) > 0 => Call.priority_message.priority >= PriorityAt(prev, 1))
          => Ordered(proposal)
    /\ (Called("new_imported") /\ Ordered(prev)) => Ordered(proposal)

\* a proposal of a higher priority was put before one of a lower priority
C6_Witness ==
    /\ Called("new_highest") /\ Len(prev) > 0 /\ Ordered(prev)
    /\ Call.priority_message.priority > PriorityAt(prev, 1)
    /\ Ordered(proposal) /\ Len(proposal) = Len(prev) + 1

\* new_highest was called with the priority of the entry at the head
EqualPriorityInserted ==
    /\ Called("new_highest") /\ Len(prev) > 0
    /\ Call.priority_message.priority = PriorityAt(prev, 1)

\* C7 as stated: of two proposals of equal priority the earlier one wins:
\* get_highest_proposal_info() and block_hash() keep returning the earlier
\* proposal after the later one is inserted.
C7_EarlierWins ==
    EqualPriorityInserted =>
        /\ GetHighestProposalInfo(proposal) = GetHighestProposalInfo(prev)
        /\ ProposalBlockHash(proposal) = ProposalBlockHash(prev)

\* C7 as amended: of two proposals of equal priority that are both inserted, the
\* later one is at the head: get_highest_proposal_info() and block_hash() return
\* the later proposal, and the earlier one is the next entry.
C7_LaterWins ==
    EqualPriorityInserted =>
        /\ GetHighestProposalInfo(proposal) =
              Some(ProposalInfo(Call.block_hash, Call.priority_message, Call.block,
                                Call.signature, FALSE))
        /\ ProposalBlockHash(proposal) = Some(Call.block_hash)
        /\ proposal[2] = prev[1]

\* a second proposal of the same priority and another hash was inserted
C7_Witness ==
    /\ EqualPriorityInserted
    /\ Call.block_hash # prev[1].block_hash
    /\ ProposalBlockHash(proposal) = Some(Call.block_hash)

\* C8: new_highest(h, ...) inserts an entry at index 0 with is_imported = false
\* and leaves the earlier entries as they were, in their order; block_hash()
\* then returns Some(h) whether or not an entry has been imported, and
\* block_hash() is None only for an empty store.
C8_NewHighestFrame ==
    /\ Called("new_highest") =>
          /\ Len(proposal) = Len(prev) + 1
          /\ proposal[1] = ProposalInfo(Call.block_hash, Call.priority_message, Call.block,
                                        Call.signature, FALSE)
          /\ \A i \in 1 .. Len(prev) : proposal[i + 1] = prev[i]
          /\ ProposalBlockHash(proposal) = Some(Call.block_hash)
    /\ (ProposalBlockHash(proposal) = None) <=> (Len(proposal) = 0)

\* a proposal was inserted before an imported entry with another hash
C8_Witness ==
    /\ Called("new_highest") /\ Len(prev) > 0
    /\ prev[1].is_imported /\ prev[1].block_hash # Call.block_hash
    /\ ~proposal[1].is_imported
    /\ ProposalBlockHash(proposal) = Some(Call.block_hash)

\* C9: new_imported(h) returns true exactly when an entry has the hash h; it then
\* sets is_imported on the first such entry and changes nothing else; with no
\* such entry it returns false and leaves the store as it was.
C9_NewImportedFrame ==
    Called("new_imported") =>
        LET matches == {i \in 1 .. Len(prev) : prev[i].block_hash = Call.block_hash}
        IN  /\ Call.result <=> (matches # {})
            /\ Len(proposal) = Len(prev)
            /\ matches = {} => proposal = prev
            /\ \A i \in matches :
                  IF \A j \in matches : i <= j
                  THEN proposal[i] = [prev[i] EXCEPT !.is_imported = TRUE]
                  ELSE proposal[i] = prev[i]
            /\ \A i \in (1 .. Len(prev)) \ matches : proposal[i] = prev[i]

\* two entries had the hash and neither was imported: the first one was marked
C9_Witness ==
    /\ Called("new_imported") /\ Call.result /\ Len(prev) = 2
    /\ prev[1].block_hash = Call.block_hash /\ prev[2].block_hash = Call.block_hash
    /\ ~prev[1].is_imported /\ ~prev[2].is_imported
    /\ proposal[1].is_imported /\ ~proposal[2].is_imported

\* C10: imported_block_hash() returns the hash of the lowest-index entry whose
\* is_imported flag is set, and None exactly when no entry is imported.
C10_ImportedBlockHash ==
    LET imported == {i \in 1 .. Len(proposal) : proposal[i].is_imported}
        r == ProposalImportedBlockHash(proposal)
    IN  /\ (r = None) <=> (imported = {})
        /\ \A i \in imported :
              (\A j \in imported : i <= j) => r = Some(proposal[i].block_hash)

\* the head entry is not imported and a later entry with another hash is:
\* imported_block_hash() differs from block_hash()
C10_Witness ==
    /\ Len(proposal) = 2
    /\ ~proposal[1].is_imported /\ proposal[2].is_imported
    /\ proposal[1].block_hash # proposal[2].block_hash
    /\ ProposalImportedBlockHash(proposal) = Some(proposal[2].block_hash)
    /\ ProposalImportedBlockHash(proposal) # ProposalBlockHash(proposal)

(***************************************************************************)
(* TendermintSealView (types.rs): the seal of a header is a slice of       *)
(* fields, each the encoding of one component.                             *)
(***************************************************************************)
MaxPrecommits == 2

\* a call that ends in a panic instead of a return
Panic(message) == [ok |-> FALSE, v |-> <<"panic", message>>]
IsPanic(r) == ~r.ok /\ r.v[1] = "panic"

\* self.seal.get(index).expect(message)
SealGet(fields, index, message) ==
    IF index < Len(fields) THEN Ok(fields[index + 1]) ELSE Panic(message)

\* the vrf seed info, a value the model keeps as its bytes
EncodeSeedInfo(seed_info) == EncodeBytes(seed_info)
DecodeSeedInfo(rlp) == DecodeBytes(rlp)

\* TendermintSealView::parent_block_finalized_view
SealParentBlockFinalizedView(fields) ==
    LET view_rlp == SealGet(fields, 0, "block has .seal_fields() fields")
    IN  IF ~view_rlp.ok THEN view_rlp ELSE DecodeU64(view_rlp.v)

\* TendermintSealView::author_view
SealAuthorView(fields) ==
    LET view_rlp == SealGet(fields, 1, "block has .seal_fields() fields")
    IN  IF ~view_rlp.ok THEN view_rlp ELSE DecodeU64(view_rlp.v)

\* a bitset() that reads the slot of the precommits
SealBitsetOfSlotTwo(fields) ==
    LET view_rlp == SealGet(fields, 2, "block has .seal_fields() fields")
    IN  IF ~view_rlp.ok THEN view_rlp ELSE DecodeBitSet(view_rlp.v)

\* TendermintSealView::bitset
SealBitset(fields) ==
    LET view_rlp == SealGet(fields, 3, "block has .seal_fields() fields")
    IN  IF ~view_rlp.ok THEN view_rlp ELSE DecodeBitSet(view_rlp.v)

\* TendermintSealView::precommits: the item itself, not decoded
SealPrecommits(fields) == SealGet(fields, 2, "block has .seal_fields() fields")

\* TendermintSealView::vrf_seed_info
SealVrfSeedInfo(fields) ==
    LET seed_rlp == SealGet(fields, 4, "block has .seal_fields() fields")
    IN  IF ~seed_rlp.ok THEN seed_rlp ELSE DecodeSeedInfo(seed_rlp.v)

\* BitSet::true_index_iter: the set indices from the smallest to the largest
RECURSIVE TrueIndexIter(_)
TrueIndexIter(bits) ==
    IF bits = {} THEN <<>>
    ELSE LET least == CHOOSE i \in bits : \A j \in bits : i <= j
         IN  <<least>> \o TrueIndexIter(bits \ {least})

\* BitSet::count
BitSetCount(bits) == Cardinality(bits)

\* Rlp::iter: the items of a list, nothing for a byte string
RlpIter(rlp) == IF IsList(rlp) THEN rlp[2] ELSE <<>>

Min(a, b) == IF a <= b THEN a ELSE b

\* a zip that refuses two sequences of different lengths
ZipCollectSameLength(indices, results) ==
    LET failed == {k \in 1 .. Len(results) : ~results[k].ok}
    IN  IF Len(indices) # Len(results)
        THEN Err(<<"RlpIncorrectListLen", Len(results), Len(indices)>>)
        ELSE IF failed # {} THEN results[CHOOSE k \in failed : \A j \in failed : k <= j]
        ELSE Ok([k \in 1 .. Len(results) |-> <<indices[k], results[k].v>>])

\* Iterator::zip followed by collect::<Result<Vec<_>, _>>: the pairs up to the
\* shorter length, or the first error among the zipped results
ZipCollect(indices, results) ==
    LET n == Min(Len(indices), Len(results))
        failed == {k \in 1 .. n : ~results[k].ok}
    IN  IF failed # {} THEN results[CHOOSE k \in failed : \A j \in failed : k <= j]
        ELSE Ok([k \in 1 .. n |-> <<indices[k], results[k].v>>])

\* a signatures() that numbers the signatures by their position in the list
SealSignaturesByPosition(fields, debug_assertions) ==
    LET precommits == SealPrecommits(fields)
        bitset == SealBitset(fields)
    IN  IF ~precommits.ok THEN precommits
        ELSE IF ~bitset.ok THEN bitset
        ELSE LET signatures == [k \in 1 .. Len(RlpIter(precommits.v)) |->
                                    DecodeSignature(RlpIter(precommits.v)[k])]
             IN  ZipCollect([k \in 1 .. BitSetCount(bitset.v) |-> k - 1], signatures)

\* TendermintSealView::signatures; debug_assert_eq! acts in a build with
\* debug assertions only
SealSignatures(fields, debug_assertions) ==
    LET precommits == SealPrecommits(fields)
        bitset == SealBitset(fields)
    IN  IF ~precommits.ok THEN precommits
        ELSE IF ~bitset.ok THEN bitset
        ELSE IF debug_assertions /\ ~ItemCount(precommits.v).ok THEN ItemCount(precommits.v)
        ELSE IF debug_assertions /\ BitSetCount(bitset.v) # ItemCount(precommits.v).v
             THEN Panic("assertion failed: (left == right)")
        ELSE LET signatures == [k \in 1 .. Len(RlpIter(precommits.v)) |->
                                    DecodeSignature(RlpIter(precommits.v)[k])]
             IN  ZipCollect(TrueIndexIter(bitset.v), signatures)

\* the seals of the model: four or five fields, well-formed or not
SeedInfos == {<<9>>}
ViewFields == {EncodeUint(0), EncodeUint(1), List(<<>>)}
AuthorViewFields == {EncodeUint(2), Str(<<0, 1>>)}
PrecommitItems == {EncodeFixed(s) : s \in Signatures} \cup {Str(<<5>>)}
PrecommitFields == {List(items) : items \in SeqsUpTo(PrecommitItems, MaxPrecommits)}
                       \cup {Str(<<>>)}
BitSetFields == {EncodeBitSet(b) : b \in BitSets} \cup {List(<<>>)}
SeedFields == {EncodeSeedInfo(s) : s \in SeedInfos} \cup {List(<<>>)}
Seals ==
    {<<v, a, p, b>> : v \in ViewFields, a \in AuthorViewFields, p \in PrecommitFields,
                      b \in BitSetFields}
    \cup {<<v, a, p, b, s>> : v \in ViewFields, a \in AuthorViewFields,
                              p \in PrecommitFields, b \in BitSetFields, s \in SeedFields}

InitSeal ==
    /\ seal \in Seals
    /\ sealRet = None
    /\ lhs = Idle /\ rhs = Idle /\ ordering = None
    /\ msg = None /\ wire = None /\ decoded = None
    /\ state = Idle /\ ret = None
    /\ proposal = <<>> /\ prev = <<>> /\ call = None
    /\ solo = Idle /\ closed = None
    /\ votes = Idle /\ majority = None /\ vote = Idle /\ verified = None
    /\ twoThirds = Idle /\ twoThirdsRet = None

\* TendermintSealView::new(seal).parent_block_finalized_view()
CallParentBlockFinalizedView ==
    /\ sealRet' = Returned("parent_block_finalized_view", SealParentBlockFinalizedView(seal))
    /\ UNCHANGED seal
    /\ UNCHANGED <<ordVars, codecVars, stateVars, proposalVars, soloVars, voteVars, verifyVars, twoThirdsVars>>

\* TendermintSealView::new(seal).author_view()
CallAuthorView ==
    /\ sealRet' = Returned("author_view", SealAuthorView(seal))
    /\ UNCHANGED seal
    /\ UNCHANGED <<ordVars, codecVars, stateVars, proposalVars, soloVars, voteVars, verifyVars, twoThirdsVars>>

\* TendermintSealView::new(seal).bitset()
CallBitset ==
    /\ sealRet' = Returned("bitset", SealBitset(seal))
    /\ UNCHANGED seal
    /\ UNCHANGED <<ordVars, codecVars, stateVars, proposalVars, soloVars, voteVars, verifyVars, twoThirdsVars>>

\* TendermintSealView::new(seal).precommits()
CallPrecommits ==
    /\ sealRet' = Returned("precommits", SealPrecommits(seal))
    /\ UNCHANGED seal
    /\ UNCHANGED <<ordVars, codecVars, stateVars, proposalVars, soloVars, voteVars, verifyVars, twoThirdsVars>>

\* TendermintSealView::new(seal).signatures(), in either build
CallSignatures ==
    /\ \E debug_assertions \in BOOLEAN :
          sealRet' = Some([op |-> "signatures", v |-> SealSignatures(seal, debug_assertions),
                           debug_assertions |-> debug_assertions])
    /\ UNCHANGED seal
    /\ UNCHANGED <<ordVars, codecVars, stateVars, proposalVars, soloVars, voteVars, verifyVars, twoThirdsVars>>

\* TendermintSealView::new(seal).vrf_seed_info()
CallVrfSeedInfo ==
    /\ sealRet' = Returned("vrf_seed_info", SealVrfSeedInfo(seal))
    /\ UNCHANGED seal
    /\ UNCHANGED <<ordVars, codecVars, stateVars, proposalVars, soloVars, voteVars, verifyVars, twoThirdsVars>>

NextSeal ==
    \/ CallParentBlockFinalizedView
    \/ CallAuthorView
    \/ CallBitset
    \/ CallPrecommits
    \/ CallSignatures
    \/ CallVrfSeedInfo

SpecSeal == InitSeal /\ [][NextSeal]_vars

(***************************************************************************)
(* C11, C12                                                                *)
(***************************************************************************)
SealOp == IF IsSome(sealRet) THEN Unwrap(sealRet).op ELSE "none"
SealResult == Unwrap(sealRet).v

\* the seal holds a BitSet in slot 3 and, in slot 2, a list of as many signatures
\* as the BitSet has set bits
SealCountsMatch ==
    /\ Len(seal) >= 4
    /\ DecodeBitSet(seal[4]).ok
    /\ IsList(seal[3])
    /\ \A k \in 1 .. Len(seal[3][2]) : DecodeSignature(seal[3][2][k]).ok
    /\ Len(seal[3][2]) = Cardinality(DecodeBitSet(seal[4]).v)

\* C11: for a seal whose BitSet has as many set bits as the precommit list has
\* signatures, signatures() returns that many pairs; the k-th pair holds the k-th
\* smallest set index and the k-th signature of the list, and the indices are
\* strictly ascending.
C11_SignaturesZipAscending ==
    (SealOp = "signatures" /\ SealCountsMatch) =>
        LET bits == DecodeBitSet(seal[4]).v
            sigs == seal[3][2]
        IN  /\ SealResult.ok
            /\ Len(SealResult.v) = Cardinality(bits)
            /\ \A k \in 1 .. Len(SealResult.v) :
                  /\ SealResult.v[k][1] \in bits
                  /\ Cardinality({i \in bits : i < SealResult.v[k][1]}) = k - 1
                  /\ SealResult.v[k][2] = sigs[k][2]
            /\ \A j, k \in 1 .. Len(SealResult.v) :
                  j < k => SealResult.v[j][1] < SealResult.v[k][1]

\* the signers 0 and 2 with two different signatures: the second pair has index 2
C11_Witness ==
    /\ SealOp = "signatures" /\ SealCountsMatch
    /\ DecodeBitSet(seal[4]).v = {0, 2}
    /\ seal[3][2][1] # seal[3][2][2]
    /\ SealResult.ok
    /\ SealResult.v = <<<<0, seal[3][2][1][2]>>, <<2, seal[3][2][2][2]>>>>

\* the slot each accessor reads
SealSlot(op) ==
    CASE op = "parent_block_finalized_view" -> 0
      [] op = "author_view" -> 1
      [] op = "precommits" -> 2
      [] op = "bitset" -> 3
      [] op = "vrf_seed_info" -> 4

SealAccessors ==
    {"parent_block_finalized_view", "author_view", "precommits", "bitset", "vrf_seed_info"}

\* C12: on a seal of exactly four fields none of the accessors
\* parent_block_finalized_view, author_view, precommits, bitset, vrf_seed_info aborts.
C12_FourFieldsNoAbort ==
    (SealOp \in SealAccessors /\ Len(seal) = 4) => ~IsPanic(SealResult)

\* the components a field encodes, as the accessor `op` reads it: none when the
\* field is not the encoding of a component
SealComponent(op, field) ==
    CASE op = "parent_block_finalized_view" -> {x \in 0 .. 2 : EncodeUint(x) = field}
      [] op = "author_view" -> {x \in 0 .. 2 : EncodeUint(x) = field}
      [] op = "precommits" -> {field}
      [] op = "bitset" -> {x \in BitSets : EncodeBitSet(x) = field}
      [] op = "vrf_seed_info" -> {x \in SeedInfos : EncodeSeedInfo(x) = field}

\* C12 (amended): the seal has five fields, in the slots 0 to 4 the components
\* parent_block_finalized_view, author_view, precommits, bitset, vrf_seed_info; an
\* accessor aborts exactly when the seal has no such slot, so that none aborts on
\* a seal of five fields and vrf_seed_info alone aborts on a seal of four; when
\* the slot is there the accessor returns a value or a decoder error, and the
\* component a seal was built from comes back.
C12_AccessorsReadTheirSlot ==
    SealOp \in SealAccessors =>
        /\ IsPanic(SealResult) <=> (SealSlot(SealOp) >= Len(seal))
        /\ SealSlot(SealOp) < Len(seal) =>
              \A x \in SealComponent(SealOp, seal[SealSlot(SealOp) + 1]) :
                  SealResult.ok /\ SealResult.v = x

\* a seal of five well-formed fields gave its vrf seed info back
C12_Witness ==
    /\ SealOp = "vrf_seed_info" /\ Len(seal) = 5
    /\ seal[5] = EncodeSeedInfo(<<9>>)
    /\ SealResult.ok /\ SealResult.v = <<9>>

(***************************************************************************)
(* The codecs of the consensus values: Step, VoteStep, VoteOn,             *)
(* ConsensusMessage (message.rs), ProposalInfo and Proposal (types.rs).    *)
(***************************************************************************)
MaxStepByte == 5

VoteOn(step, block_hash) == [step |-> step, block_hash |-> block_hash]
ConsensusMessage(on, signature, signer_index) ==
    [on |-> on, signature |-> signature, signer_index |-> signer_index]

\* impl Default for VoteStep, and the derived Default of ConsensusMessage
VoteStepDefault == VoteStepNew(0, 0, "Propose")
ConsensusMessageDefault ==
    ConsensusMessage(VoteOn(VoteStepDefault, None), [i \in 1 .. SigLen |-> 0], 0)

\* bool: one byte, 0 or 1; an empty string decodes to false
EncodeBool(b) == Str(<<IF b THEN 1 ELSE 0>>)
DecodeBool(rlp) ==
    IF ~IsStr(rlp) THEN Err(<<"RlpExpectedToBeData">>)
    ELSE IF Len(rlp[2]) = 0 THEN Ok(FALSE)
    ELSE IF Len(rlp[2]) = 1 THEN Ok(rlp[2][1] # 0)
    ELSE Err(<<"RlpIsTooBig">>)

\* #[derive(RlpEncodable, RlpDecodable)] on VoteOn: one field per list slot
EncodeVoteOn(on) == List(<<EncodeVoteStep(on.step), EncodeOptionH256(on.block_hash)>>)
DecodeVoteOn(rlp) ==
    IF ~IsList(rlp) THEN Err(<<"RlpExpectedToBeList">>)
    ELSE IF Len(rlp[2]) # 2 THEN Err(<<"RlpIncorrectListLen", Len(rlp[2]), 2>>)
    ELSE LET step == DecodeVoteStep(rlp[2][1])
             block_hash == DecodeOptionH256(rlp[2][2])
         IN  IF ~step.ok THEN step
             ELSE IF ~block_hash.ok THEN block_hash
             ELSE Ok(VoteOn(step.v, block_hash.v))

\* #[derive(RlpEncodable, RlpDecodable)] on ConsensusMessage
EncodeConsensusMessage(m) ==
    List(<<EncodeVoteOn(m.on), EncodeFixed(m.signature), EncodeUint(m.signer_index)>>)
DecodeConsensusMessageValue(rlp) ==
    IF ~IsList(rlp) THEN Err(<<"RlpExpectedToBeList">>)
    ELSE IF Len(rlp[2]) # 3 THEN Err(<<"RlpIncorrectListLen", Len(rlp[2]), 3>>)
    ELSE LET on == DecodeVoteOn(rlp[2][1])
             signature == DecodeSignature(rlp[2][2])
             signer_index == DecodeU64(rlp[2][3])
         IN  IF ~on.ok THEN on
             ELSE IF ~signature.ok THEN signature
             ELSE IF ~signer_index.ok THEN signer_index
             ELSE Ok(ConsensusMessage(on.v, signature.v, signer_index.v))

\* the codec of a PriorityMessage, of which the model keeps the priority
EncodePriorityMessage(priority_message) == List(<<EncodeUint(Priority(priority_message))>>)
DecodePriorityMessage(rlp) ==
    IF ~IsList(rlp) THEN Err(<<"RlpExpectedToBeList">>)
    ELSE IF Len(rlp[2]) # 1 THEN Err(<<"RlpIncorrectListLen", Len(rlp[2]), 1>>)
    ELSE LET priority == DecodeU64(rlp[2][1])
         IN  IF ~priority.ok THEN priority ELSE Ok([priority |-> priority.v])

\* #[derive(RlpEncodable, RlpDecodable)] on ProposalInfo
EncodeProposalInfo(info) ==
    List(<<EncodeFixed(info.block_hash), EncodePriorityMessage(info.priority_message),
           EncodeBytes(info.block), EncodeFixed(info.signature), EncodeBool(info.is_imported)>>)
DecodeProposalInfo(rlp) ==
    IF ~IsList(rlp) THEN Err(<<"RlpExpectedToBeList">>)
    ELSE IF Len(rlp[2]) # 5 THEN Err(<<"RlpIncorrectListLen", Len(rlp[2]), 5>>)
    ELSE LET block_hash == DecodeH256(rlp[2][1])
             priority_message == DecodePriorityMessage(rlp[2][2])
             block == DecodeBytes(rlp[2][3])
             signature == DecodeSignature(rlp[2][4])
             is_imported == DecodeBool(rlp[2][5])
         IN  IF ~block_hash.ok THEN block_hash
             ELSE IF ~priority_message.ok THEN priority_message
             ELSE IF ~block.ok THEN block
             ELSE IF ~signature.ok THEN signature
             ELSE IF ~is_imported.ok THEN is_imported
             ELSE Ok(ProposalInfo(block_hash.v, priority_message.v, block.v, signature.v,
                                  is_imported.v))

\* impl Encodable for Proposal: s.append_list(&self.0)
EncodeProposal(self) == List([i \in 1 .. Len(self) |-> EncodeProposalInfo(self[i])])

\* a decoder that stops before the last entry of the list
DecodeProposalButLast(rlp) ==
    IF ~IsList(rlp) THEN Err(<<"RlpExpectedToBeList">>)
    ELSE LET infos == [i \in 1 .. Len(rlp[2]) - 1 |-> DecodeProposalInfo(rlp[2][i])]
             failed == {i \in 1 .. Len(infos) : ~infos[i].ok}
         IN  IF failed # {} THEN infos[CHOOSE i \in failed : \A j \in failed : i <= j]
             ELSE Ok([i \in 1 .. Len(infos) |-> infos[i].v])

\* impl Decodable for Proposal: Ok(Proposal(rlp.as_list()?))
DecodeProposal(rlp) ==
    IF ~IsList(rlp) THEN Err(<<"RlpExpectedToBeList">>)
    ELSE LET infos == [i \in 1 .. Len(rlp[2]) |-> DecodeProposalInfo(rlp[2][i])]
             failed == {i \in 1 .. Len(infos) : ~infos[i].ok}
         IN  IF failed # {} THEN infos[CHOOSE i \in failed : \A j \in failed : i <= j]
             ELSE Ok([i \in 1 .. Len(infos) |-> infos[i].v])

\* value.rlp_bytes() and rlp::decode::<T>(&bytes), T named by `kind`
EncodeValue(kind, value) ==
    CASE kind = "Step" -> EncodeStep(value)
      [] kind = "VoteStep" -> EncodeVoteStep(value)
      [] kind = "VoteOn" -> EncodeVoteOn(value)
      [] kind = "ConsensusMessage" -> EncodeConsensusMessage(value)
      [] kind = "Proposal" -> EncodeProposal(value)
DecodeValue(kind, rlp) ==
    CASE kind = "Step" -> DecodeStep(rlp)
      [] kind = "VoteStep" -> DecodeVoteStep(rlp)
      [] kind = "VoteOn" -> DecodeVoteOn(rlp)
      [] kind = "ConsensusMessage" -> DecodeConsensusMessageValue(rlp)
      [] kind = "Proposal" -> DecodeProposal(rlp)

\* the values of the model
OptionHashes == {None} \cup {Some(h) : h \in Hashes}
VoteOns == {VoteOn(vs, h) : vs \in VoteSteps, h \in OptionHashes}
SignerIndices == {0, 1, 4660}
ConsensusMessages ==
    {ConsensusMessage(on, s, i) : on \in VoteOns, s \in Signatures, i \in SignerIndices}
ProposalInfos ==
    {ProposalInfo(h, pm, BlockBytes(h), s, imported) :
        h \in Hashes, pm \in PriorityMessages, s \in Signatures, imported \in BOOLEAN}
Proposals == SeqsUpTo(ProposalInfos, MaxProposals)
Values ==
    {<<"Step", s>> : s \in Steps}
    \cup {<<"VoteStep", vs>> : vs \in VoteSteps}
    \cup {<<"VoteOn", on>> : on \in VoteOns}
    \cup {<<"ConsensusMessage", m>> : m \in ConsensusMessages}
    \cup {<<"Proposal", p>> : p \in Proposals}

\* the single values a peer may send where a Step is expected
StepBytes == {EncodeUint(n) : n \in (0 .. MaxStepByte) \cup {255}}

InitValues ==
    /\ msg \in {None} \cup {Some(v) : v \in Values}
    /\ wire = None
    /\ decoded = None
    /\ lhs = Idle /\ rhs = Idle /\ ordering = None
    /\ state = Idle /\ ret = None
    /\ proposal = <<>> /\ prev = <<>> /\ call = None
    /\ seal = Idle /\ sealRet = None /\ solo = Idle /\ closed = None
    /\ votes = Idle /\ majority = None /\ vote = Idle /\ verified = None
    /\ twoThirds = Idle /\ twoThirdsRet = None

\* value.rlp_bytes(): the wire holds the type and the item
EncodeTheValue ==
    /\ IsSome(msg) /\ wire = None
    /\ wire' = Some(<<Unwrap(msg)[1], EncodeValue(Unwrap(msg)[1], Unwrap(msg)[2])>>)
    /\ UNCHANGED <<msg, decoded>>
    /\ UNCHANGED <<ordVars, stateVars, proposalVars, sealVars, soloVars, voteVars, verifyVars, twoThirdsVars>>

\* a single value arrives where a Step is expected
ReceiveStep ==
    /\ msg = None /\ wire = None
    /\ \E item \in StepBytes : wire' = Some(<<"Step", item>>)
    /\ UNCHANGED <<msg, decoded>>
    /\ UNCHANGED <<ordVars, stateVars, proposalVars, sealVars, soloVars, voteVars, verifyVars, twoThirdsVars>>

\* rlp::decode::<T>(&bytes)
DecodeTheValue ==
    /\ IsSome(wire) /\ decoded = None
    /\ decoded' = Some(DecodeValue(Unwrap(wire)[1], Unwrap(wire)[2]))
    /\ UNCHANGED <<msg, wire>>
    /\ UNCHANGED <<ordVars, stateVars, proposalVars, sealVars, soloVars, voteVars, verifyVars, twoThirdsVars>>

NextValues == EncodeTheValue \/ ReceiveStep \/ DecodeTheValue

SpecValues == InitValues /\ [][NextValues]_vars

(***************************************************************************)
(* C13, C14                                                                *)
(***************************************************************************)
\* C13: for every ConsensusMessage, VoteOn, VoteStep and Proposal value, decoding
\* the encoding succeeds and yields the value that was encoded: nil votes, the
\* step Commit, the default message and the is_imported flags included.
C13_ValueRoundTrip ==
    (/\ IsSome(msg) /\ IsSome(decoded)
     /\ Unwrap(msg)[1] \in {"ConsensusMessage", "VoteOn", "VoteStep", "Proposal"})
        => (Decoded.ok /\ Decoded.v = Unwrap(msg)[2])

\* a Proposal of two entries with different is_imported flags came back
C13_Witness ==
    /\ IsSome(msg) /\ IsSome(decoded) /\ Unwrap(msg)[1] = "Proposal"
    /\ Len(Unwrap(msg)[2]) = 2
    /\ Unwrap(msg)[2][1].is_imported /\ ~Unwrap(msg)[2][2].is_imported
    /\ Decoded.ok /\ Decoded.v = Unwrap(msg)[2]

\* the number the claim gives each Step
C14_Number(step) ==
    CASE step = "Propose" -> 0 [] step = "Prevote" -> 1
      [] step = "Precommit" -> 2 [] step = "Commit" -> 3

\* C14: a Step is encoded as the single value 0, 1, 2, 3 for Propose, Prevote,
\* Precommit, Commit; decoding the encoding of a Step gives the Step back, and
\* decoding any other single value gives the error Custom("Invalid step.").
C14_StepCodec ==
    (IsSome(wire) /\ Wire[1] = "Step") =>
        /\ IsSome(msg) => Wire[2] = Str(ToBytes(C14_Number(Unwrap(msg)[2])))
        /\ IsSome(decoded) =>
              /\ \A s \in Steps :
                    Wire[2] = Str(ToBytes(C14_Number(s))) => (Decoded.ok /\ Decoded.v = s)
              /\ \A n \in 4 .. 255 :
                    Wire[2] = Str(<<n>>) =>
                        (~Decoded.ok /\ Decoded.v = <<"Custom", "Invalid step.">>)

\* Commit was encoded as the value 3 and came back from it
C14_Witness ==
    /\ IsSome(msg) /\ IsSome(decoded) /\ Wire[1] = "Step"
    /\ Unwrap(msg)[2] = "Commit" /\ Wire[2] = Str(<<3>>)
    /\ Decoded.ok /\ Decoded.v = "Commit"

(***************************************************************************)
(* C18                                                                     *)
(***************************************************************************)
\* C18: for every TendermintState, committed() is Some((view, block_hash)) with
\* the stored view and hash exactly when is_commit() is true, exactly when
\* to_step() is Commit: that is for Commit and for CommitTimedout; for Propose,
\* Prevote and Precommit committed() is None; is_commit_timedout() is true for
\* CommitTimedout only.
C18_CommittedStates ==
    LastOp = "queries" =>
        LET q == Unwrap(ret).v
            in_commit == state.tag \in {"Commit", "CommitTimedout"}
        IN  /\ IsSome(q.committed) <=> q.is_commit
            /\ q.is_commit <=> (q.to_step = "Commit")
            /\ q.is_commit <=> in_commit
            /\ in_commit => q.committed = Some(<<state.view, state.block_hash>>)
            /\ state.tag \in {"Propose", "Prevote", "Precommit"} => q.committed = None
            /\ q.is_commit_timedout <=> (state.tag = "CommitTimedout")

\* a CommitTimedout state reported its view and hash, and the step Commit
C18_Witness ==
    /\ LastOp = "queries" /\ state.tag = "CommitTimedout"
    /\ state.view = 1 /\ state.block_hash # ZeroHash
    /\ Unwrap(ret).v.committed = Some(<<1, state.block_hash>>)
    /\ Unwrap(ret).v.is_commit /\ Unwrap(ret).v.is_commit_timedout
    /\ Unwrap(ret).v.to_step = "Commit"

(***************************************************************************)
(* Solo::on_close_block (solo/mod.rs).  The chain state keeps the balances *)
(* of the accounts, the stakes, the intermediate rewards of the current    *)
(* and of the previous term, and the blocks at which a term was closed.    *)
(***************************************************************************)
MaxBlocks == 2
MaxDelay == 2

Addresses == {"a0", "a1", "a2"}

\* a transaction, of which the model keeps the fee and the minimum cost of its action
Tx(fee, min_cost) == [fee |-> fee, min_cost |-> min_cost]
TransactionLists ==
    {<<>>, <<Tx(3, 2)>>, <<Tx(3, 2), Tx(4, 3)>>, <<Tx(1, 7)>>}

RECURSIVE SumOver(_, _)
SumOver(f, S) ==
    IF S = {} THEN 0
    ELSE LET a == CHOOSE x \in S : TRUE IN f[a] + SumOver(f, S \ {a})
Sum(f) == SumOver(f, DOMAIN f)

NoRewards == [a \in Addresses |-> 0]

\* transactions.iter().map(|tx| tx.fee).sum()
TotalFee(transactions) == Sum([i \in 1 .. Len(transactions) |-> transactions[i].fee])

\* transactions.iter().map(|tx| CodeChainMachine::min_cost(&parent_common_params, &tx.action)).sum()
TotalMinFee(transactions) == Sum([i \in 1 .. Len(transactions) |-> transactions[i].min_cost])

\* a total reward that leaves the block reward out
TotalRewardOfFees(block_reward, transactions) == TotalFee(transactions)

\* block_reward + the fees of the transactions
TotalReward(block_reward, transactions) == block_reward + TotalFee(transactions)

\* stake::fee_distribute: each stakeholder's share of the minimum fees, in
\* proportion to its stake and rounded down
FeeDistribute(total_min_fee, stakes) ==
    [a \in Addresses |->
        IF stakes[a] = 0 THEN 0 ELSE (total_min_fee * stakes[a]) \div Sum(stakes)]

\* FeeDistributeIter::remaining_fee once every share is handed out
RemainingFee(total_min_fee, shares) == total_min_fee - Sum(shares)

\* an author reward that forgets what the distributor could not hand out
BlockAuthorRewardNoRemainder(total_reward, total_min_fee, remaining_fee) ==
    total_reward - total_min_fee

\* total_reward - total_min_fee + distributor.remaining_fee()
BlockAuthorReward(total_reward, total_min_fee, remaining_fee) ==
    total_reward - total_min_fee + remaining_fee

\* CodeChainMachine::add_balance
AddBalance(chain, address, amount) == [chain EXCEPT !.balance[address] = @ + amount]

\* the loop of add_balance over a list of (address, amount), here a function
AddBalances(chain, amounts) ==
    [chain EXCEPT !.balance = [a \in Addresses |-> @[a] + amounts[a]]]

\* stake::add_intermediate_rewards
AddIntermediateRewards(chain, address, reward) ==
    [chain EXCEPT !.current[address] = @ + reward]

\* stake::move_current_to_previous_intermediate_rewards
MoveCurrentToPreviousIntermediateRewards(chain) ==
    [chain EXCEPT !.previous = chain.current, !.current = NoRewards]

\* stake::drain_previous_rewards, as <<the chain after, the rewards>>
DrainPreviousRewards(chain) == <<[chain EXCEPT !.previous = NoRewards], chain.previous>>

\* stake::on_term_close
OnTermClose(chain, last_term_finished_block_num) ==
    [chain EXCEPT !.term_closed = Append(@, last_term_finished_block_num)]

\* a test of the term that looks at the time since the parent block
TermChangedByElapsedTime(timestamp, parent_timestamp, term_seconds) ==
    timestamp - parent_timestamp >= term_seconds

\* current_term_period != parent_term_period
TermChanged(timestamp, parent_timestamp, term_seconds) ==
    (timestamp \div term_seconds) # (parent_timestamp \div term_seconds)

\* a test that asks for a total reward above the minimum fees
TotalRewardAboveMinFee(total_reward, total_min_fee) == total_reward > total_min_fee

\* the condition of the assert! of on_close_block
TotalRewardCoversMinFee(total_reward, total_min_fee) == total_reward >= total_min_fee

\* a close of the term that pays the rewards of the term before and keeps the
\* ones of the term that ends for the next close
CloseTermPayingPrevious(chain, number) ==
    LET drained == DrainPreviousRewards(chain)
    IN  OnTermClose(MoveCurrentToPreviousIntermediateRewards(
                        AddBalances(drained[1], drained[2])), number)

\* the close of the term: the current rewards become the previous ones, these are
\* drained and paid, and the term is closed at the block `number`
CloseTerm(chain, number) ==
    LET drained == DrainPreviousRewards(MoveCurrentToPreviousIntermediateRewards(chain))
    IN  OnTermClose(AddBalances(drained[1], drained[2]), number)

\* Solo::on_close_block on the block `number` of `author` with the `transactions`
\* and the `timestamp`, on top of the chain: the result and the chain after
OnCloseBlock(chain, author, transactions, timestamp, number) ==
    LET total_reward == TotalReward(chain.block_reward, transactions)
        total_min_fee == TotalMinFee(transactions)
        shares == FeeDistribute(total_min_fee, chain.stakes)
        distributed == AddBalances(chain, shares)
        block_author_reward ==
            BlockAuthorReward(total_reward, total_min_fee, RemainingFee(total_min_fee, shares))
        added == AddIntermediateRewards(distributed, author, block_author_reward)
    IN  IF ~TotalRewardCoversMinFee(total_reward, total_min_fee)
        THEN [result |-> Panic("assertion failed: total_reward >= total_min_fee"),
              chain |-> chain]
        ELSE IF chain.term_seconds = 0
        THEN [result |-> Ok(<<>>), chain |-> AddBalance(distributed, author, block_author_reward)]
        ELSE IF ~TermChanged(timestamp, chain.timestamp, chain.term_seconds)
        THEN [result |-> Ok(<<>>), chain |-> added]
        ELSE [result |-> Ok(<<>>), chain |-> CloseTerm(added, number)]

\* the parameters of the chains of the model
BlockRewards == {0, 5}
TermSeconds == {0, 2}
StakeTables == {NoRewards, [a \in Addresses |-> IF a = "a0" THEN 1 ELSE IF a = "a1" THEN 2 ELSE 0]}

\* a fresh chain: no balance, no reward, the genesis block at time 0
InitSolo ==
    /\ solo \in {[balance |-> NoRewards, current |-> NoRewards, previous |-> NoRewards,
                  term_closed |-> <<>>, number |-> 0, timestamp |-> 0,
                  block_reward |-> r, term_seconds |-> t, stakes |-> s] :
                    r \in BlockRewards, t \in TermSeconds, s \in StakeTables}
    /\ closed = None
    /\ lhs = Idle /\ rhs = Idle /\ ordering = None
    /\ msg = None /\ wire = None /\ decoded = None
    /\ state = Idle /\ ret = None
    /\ proposal = <<>> /\ prev = <<>> /\ call = None
    /\ seal = Idle /\ sealRet = None
    /\ votes = Idle /\ majority = None /\ vote = Idle /\ verified = None
    /\ twoThirds = Idle /\ twoThirdsRet = None

\* what the blocks closed so far have earned their authors and handed out to
\* the stakeholders, account by account
EarnedSoFar == IF IsSome(closed) THEN Unwrap(closed).earned ELSE NoRewards
SharesSoFar == IF IsSome(closed) THEN Unwrap(closed).shares ELSE NoRewards

\* a block on top of the chain is closed; when on_close_block returns, the block
\* becomes the parent of the next one
CloseBlock ==
    /\ solo.number < MaxBlocks
    /\ \E author \in Addresses, transactions \in TransactionLists, delay \in 1 .. MaxDelay :
          LET r == OnCloseBlock(solo, author, transactions, solo.timestamp + delay,
                                solo.number + 1)
              shares == FeeDistribute(TotalMinFee(transactions), solo.stakes)
              reward == solo.block_reward + TotalFee(transactions) - Sum(shares)
          IN  /\ closed' = Some([author |-> author, transactions |-> transactions,
                                 timestamp |-> solo.timestamp + delay,
                                 number |-> solo.number + 1, parent |-> solo,
                                 result |-> r.result,
                                 earned |-> IF r.result.ok
                                            THEN [EarnedSoFar EXCEPT ![author] = @ + reward]
                                            ELSE EarnedSoFar,
                                 shares |-> IF r.result.ok
                                            THEN [a \in Addresses |-> SharesSoFar[a] + shares[a]]
                                            ELSE SharesSoFar])
              /\ solo' = IF r.result.ok
                         THEN [r.chain EXCEPT !.number = solo.number + 1,
                                              !.timestamp = solo.timestamp + delay]
                         ELSE solo
    /\ UNCHANGED <<ordVars, codecVars, stateVars, proposalVars, sealVars, voteVars, verifyVars, twoThirdsVars>>

NextSolo == CloseBlock

SpecSolo == InitSolo /\ [][NextSolo]_vars

(***************************************************************************)
(* C15, C16, C17                                                           *)
(***************************************************************************)
Closed == Unwrap(closed)
Parent == Closed.parent
Returns == IsSome(closed) /\ Closed.result.ok

\* what the block credited to the balance of an account
Credited(a) == solo.balance[a] - Parent.balance[a]

ClosedFee == TotalFee(Closed.transactions)
ClosedMinFee == TotalMinFee(Closed.transactions)

\* the credit is the share of the account: its part of the minimum fees in
\* proportion to its stake, rounded down
IsShare(credit, a) ==
    IF Parent.stakes[a] = 0 THEN credit = 0
    ELSE /\ credit * Sum(Parent.stakes) <= ClosedMinFee * Parent.stakes[a]
         /\ (credit + 1) * Sum(Parent.stakes) > ClosedMinFee * Parent.stakes[a]

\* what the distributor could hand out to the stakeholders, the author included
HandedOut ==
    Sum([a \in Addresses |->
            IF Parent.stakes[a] = 0 THEN 0
            ELSE (ClosedMinFee * Parent.stakes[a]) \div Sum(Parent.stakes)])

\* C15: with term_seconds = 0 a closed block conserves the rewards: every
\* stakeholder is credited its share of the summed minimum fees, the author is
\* credited (on top of its own share) block_reward + fees - minimum fees + the
\* undistributed remainder, and the credits of all accounts sum up to
\* block_reward + fees.
C15_RewardsConserved ==
    (Returns /\ Parent.term_seconds = 0) =>
        /\ \A a \in Addresses \ {Closed.author} : IsShare(Credited(a), a)
        /\ \E share \in 0 .. ClosedMinFee :
              /\ IsShare(share, Closed.author)
              /\ Credited(Closed.author) =
                    share + Parent.block_reward + ClosedFee - ClosedMinFee
                    + (ClosedMinFee - HandedOut)
        /\ Sum([a \in Addresses |-> Credited(a)]) = Parent.block_reward + ClosedFee

\* minimum fees of 5 over the stakes 1 and 2: the shares 1 and 3, the remainder 1
\* goes to an author without stake
C15_Witness ==
    /\ Returns /\ Parent.term_seconds = 0
    /\ ClosedMinFee = 5 /\ Parent.stakes["a0"] = 1 /\ Parent.stakes["a1"] = 2
    /\ Closed.author = "a2" /\ Parent.block_reward = 5
    /\ Credited("a0") = 1 /\ Credited("a1") = 3
    /\ Credited("a2") = 5 + 7 - 5 + 1

\* C16: with term_seconds = 0, closing a block without transactions credits the
\* author block_reward and nothing to any other account; on a fresh chain the
\* balance of the author is block_reward afterwards.
C16_EmptyBlock ==
    (Returns /\ Parent.term_seconds = 0 /\ Closed.transactions = <<>>) =>
        /\ Credited(Closed.author) = Parent.block_reward
        /\ \A a \in Addresses \ {Closed.author} : Credited(a) = 0
        /\ Closed.number = 1 => solo.balance[Closed.author] = Parent.block_reward

\* the first block of a chain with stakeholders and a block reward, empty
C16_Witness ==
    /\ Returns /\ Parent.term_seconds = 0 /\ Closed.transactions = <<>>
    /\ Closed.number = 1 /\ Parent.block_reward = 5 /\ Parent.stakes["a1"] = 2
    /\ Closed.author = "a1" /\ solo.balance = [NoRewards EXCEPT !["a1"] = 5]

PeriodsDiffer ==
    (Closed.timestamp \div Parent.term_seconds) # (Parent.timestamp \div Parent.term_seconds)

TermClosedNow == solo.term_closed = Append(Parent.term_closed, Closed.number)
NoTermClosed == solo.term_closed = Parent.term_closed

\* the reward of the author of the closed block
AuthorReward == Parent.block_reward + ClosedFee - HandedOut

\* C17: with term_seconds # 0 the term closes exactly when the periods
\* (timestamp / term_seconds, rounded down) of the block and of its parent differ:
\* then the rewards of the term, the one of this block included, are paid to
\* their recipients, both sets of intermediate rewards are left empty and the
\* event carries the number of the block.  When the periods are equal the reward
\* of the author is added to the current intermediate rewards only and no event
\* fires: no balance is credited for it, the balance of the author grows, as the
\* one of every stakeholder, by its share of the minimum fees and by nothing else.
C17_TermClose ==
    (Returns /\ Parent.term_seconds # 0) =>
        /\ TermClosedNow <=> PeriodsDiffer
        /\ TermClosedNow \/ NoTermClosed
        /\ ~PeriodsDiffer =>
              /\ solo.current = [Parent.current EXCEPT ![Closed.author] = @ + AuthorReward]
              /\ solo.previous = Parent.previous
              /\ \A a \in Addresses : IsShare(Credited(a), a)
        /\ PeriodsDiffer =>
              /\ solo.current = NoRewards /\ solo.previous = NoRewards
              /\ \A a \in Addresses :
                    \E share \in 0 .. ClosedMinFee :
                        /\ IsShare(share, a)
                        /\ Credited(a) = share + Parent.current[a] + Parent.previous[a]
                                         + (IF a = Closed.author THEN AuthorReward ELSE 0)

\* the second block starts a new term one second after the first: the reward that
\* the first block left in the intermediate rewards is paid with the one of the second
C17_Witness ==
    /\ Returns /\ Parent.term_seconds = 2 /\ Closed.number = 2
    /\ Parent.timestamp = 1 /\ Closed.timestamp = 2
    /\ Parent.current["a2"] = 5 /\ Closed.author = "a0" /\ Closed.transactions = <<>>
    /\ Parent.stakes = NoRewards
    /\ Credited("a2") = 5 /\ Credited("a0") = 5
    /\ solo.term_closed = <<2>> /\ solo.current = NoRewards

(***************************************************************************)
(* The supermajority test of the vote collector, for the votes on one      *)
(* block hash at one step.                                                 *)
(***************************************************************************)
MaxValidators == 5

\* the least integer not below 2n/3
CeilTwoThirds(n) == (2 * n + 2) \div 3

\* has_two_thirds: the BitSet of the signers has count >= ceil(2n/3) + 1
HasTwoThirds(signers, n) == BitSetCount(signers) >= CeilTwoThirds(n) + 1

\* the collector of a height with n validators, without a vote
InitVotes ==
    /\ votes \in {[n |-> n, signers |-> {}] : n \in 1 .. MaxValidators}
    /\ majority = None
    /\ lhs = Idle /\ rhs = Idle /\ ordering = None
    /\ msg = None /\ wire = None /\ decoded = None
    /\ state = Idle /\ ret = None
    /\ proposal = <<>> /\ prev = <<>> /\ call = None
    /\ seal = Idle /\ sealRet = None /\ solo = Idle /\ closed = None
    /\ vote = Idle /\ verified = None
    /\ twoThirds = Idle /\ twoThirdsRet = None

\* insert(msg): the vote of a validator that has not voted yet is added
InsertVote ==
    /\ \E signer_index \in (0 .. votes.n - 1) \ votes.signers :
          votes' = [votes EXCEPT !.signers = @ \cup {signer_index}]
    /\ UNCHANGED majority
    /\ UNCHANGED <<ordVars, codecVars, stateVars, proposalVars, sealVars, soloVars, verifyVars, twoThirdsVars>>

\* has_two_thirds(step, hash) on the votes collected so far
TestTwoThirds ==
    /\ majority' = Some([count |-> BitSetCount(votes.signers), n |-> votes.n,
                         result |-> HasTwoThirds(votes.signers, votes.n)])
    /\ UNCHANGED votes
    /\ UNCHANGED <<ordVars, codecVars, stateVars, proposalVars, sealVars, soloVars, verifyVars, twoThirdsVars>>

NextVotes == InsertVote \/ TestTwoThirds

SpecVotes == InitVotes /\ [][NextVotes]_vars

(***************************************************************************)
(* C19                                                                     *)
(***************************************************************************)
\* C19: for every size n >= 1 of the validator set the supermajority test holds
\* exactly when the count is strictly more than two thirds of n; with n = 4, 3
\* votes for the same hash reach the threshold.
C19_StrictlyMoreThanTwoThirds ==
    IsSome(majority) =>
        /\ Unwrap(majority).result <=> (3 * Unwrap(majority).count > 2 * Unwrap(majority).n)
        /\ (Unwrap(majority).n = 4 /\ Unwrap(majority).count = 3) => Unwrap(majority).result

(***************************************************************************)
(* ConsensusMessage::verify, message_info_rlp and message_hash             *)
(* (message.rs).  A digest is kept as the bytes it was computed from, a    *)
(* Schnorr signature as the key and the digest it was made with.           *)
(***************************************************************************)
\* blake256: a digest without collisions
Blake256(bytes) == <<"blake256", bytes>>

\* the key pairs: a public key stands for its private key too
Keys == {"k0", "k1"}
SignSchnorr(private, digest) == <<"schnorr", private, digest>>
VerifySchnorr(public, signature, digest) == Ok(signature[2] = public /\ signature[3] = digest)

\* a message_info_rlp that leaves the block hash out
MessageInfoRlpOfStep(step, block_hash) == EncodeVoteStep(step)

\* message_info_rlp
MessageInfoRlp(step, block_hash) == EncodeVoteOn(VoteOn(step, block_hash))

\* message_hash
MessageHash(step, block_hash) == Blake256(EncodeVoteOn(VoteOn(step, Some(block_hash))))

\* the digest verify computes: blake256(vote_info)
VerifyDigest(self) == Blake256(MessageInfoRlp(self.on.step, self.on.block_hash))

\* impl Message for ConsensusMessage: verify
Verify(self, signer_public) == VerifySchnorr(signer_public, self.signature, VerifyDigest(self))

\* the votes of the model: signed by a key over the digest of the vote itself, or
\* over the digest of the nil vote of the first step
VoteSignatures(on) ==
    {SignSchnorr(k, Blake256(EncodeVoteOn(o))) : k \in Keys, o \in {on, VoteOn(VoteStepDefault, None)}}
SignedVotes ==
    UNION {{ConsensusMessage(on, s, i) : s \in VoteSignatures(on), i \in 0 .. 1} : on \in VoteOns}

InitVerify ==
    /\ vote \in SignedVotes
    /\ verified = None
    /\ lhs = Idle /\ rhs = Idle /\ ordering = None
    /\ msg = None /\ wire = None /\ decoded = None
    /\ state = Idle /\ ret = None
    /\ proposal = <<>> /\ prev = <<>> /\ call = None
    /\ seal = Idle /\ sealRet = None /\ solo = Idle /\ closed = None
    /\ votes = Idle /\ majority = None
    /\ twoThirds = Idle /\ twoThirdsRet = None

\* message.verify(&signer_public)
VerifyVote ==
    /\ \E signer_public \in Keys :
          verified' = Some([signer_public |-> signer_public, digest |-> VerifyDigest(vote),
                            result |-> Verify(vote, signer_public)])
    /\ UNCHANGED vote
    /\ UNCHANGED <<ordVars, codecVars, stateVars, proposalVars, sealVars, soloVars, voteVars, twoThirdsVars>>

NextVerify == VerifyVote

SpecVerify == InitVerify /\ [][NextVerify]_vars

(***************************************************************************)
(* C20                                                                     *)
(***************************************************************************)
Verified == Unwrap(verified)

\* C20: verify checks the signature against the BLAKE-256 digest of the encoding
\* of the VoteOn of the message: the digest is the same for every signer_index and
\* every signature, for a vote on a hash h it is message_hash(step, h), and verify
\* accepts exactly the signature the key made over that digest.
C20_VerifyDigestOfVoteOn ==
    IsSome(verified) =>
        /\ Verified.digest = <<"blake256", EncodeVoteOn(vote.on)>>
        /\ \A i \in SignerIndices, s \in VoteSignatures(VoteOn(VoteStepDefault, None)) :
              VerifyDigest(ConsensusMessage(vote.on, s, i)) = Verified.digest
        /\ IsSome(vote.on.block_hash) =>
              /\ Verified.digest = MessageHash(vote.on.step, Unwrap(vote.on.block_hash))
              /\ (vote.signature = SignSchnorr(Verified.signer_public,
                                               MessageHash(vote.on.step, Unwrap(vote.on.block_hash))))
                    <=> (Verified.result.ok /\ Verified.result.v)
        /\ (Verified.result.ok /\ Verified.result.v)
              <=> vote.signature = SignSchnorr(Verified.signer_public, Verified.digest)

\* a Precommit for a hash, signed by k0 over message_hash and sent with the
\* signer_index 1, was accepted for the key k0
C20_Witness ==
    /\ IsSome(verified) /\ vote.on.step.step = "Precommit" /\ IsSome(vote.on.block_hash)
    /\ vote.signer_index = 1 /\ Verified.signer_public = "k0"
    /\ vote.signature = SignSchnorr("k0", MessageHash(vote.on.step, Unwrap(vote.on.block_hash)))
    /\ Verified.result.ok /\ Verified.result.v

(***************************************************************************)
(* C21                                                                     *)
(***************************************************************************)
\* the StepState messages that differ from m in lock_view being None or Some(0)
\* only, or in proposal being None or some hash only
OptionTwins(m) ==
    ({[m EXCEPT !.lock_view = lv] : lv \in IF m.lock_view \in {None, Some(0)}
                                            THEN {None, Some(0)} ELSE {m.lock_view}}
     \cup {[m EXCEPT !.proposal = p] : p \in OptionHashes}) \ {m}

\* C21: an absent optional is kept apart from a present zero: a StepState and a
\* twin of it that differs only in lock_view = None against Some(0), or in
\* proposal = None against some hash, have different encodings, and the encoded
\* message decodes back to itself.
C21_AbsentApartFromZero ==
    (IsSome(msg) /\ Unwrap(msg).type = "StepState" /\ IsSome(wire)) =>
        /\ \A twin \in OptionTwins(Unwrap(msg)) : EncodeMessage(twin) # Wire
        /\ IsSome(decoded) => (Decoded.ok /\ Decoded.v = Unwrap(msg))

\* no twin of a StepState in the proposal shares its encoding: a hash is never the
\* empty string
C21_ProposalApart ==
    (IsSome(msg) /\ Unwrap(msg).type = "StepState" /\ IsSome(wire)) =>
        \A p \in OptionHashes :
            p # Unwrap(msg).proposal => EncodeMessage([Unwrap(msg) EXCEPT !.proposal = p]) # Wire

(***************************************************************************)
(* C22                                                                     *)
(***************************************************************************)
\* the place in the store of the entry that was at index i before the call
PlaceAfterCall(i) == i + Len(proposal) - Len(prev)

\* C22: a call of new_highest or new_imported removes no entry and clears no
\* is_imported flag: every entry of the store before the call is in the store
\* after it, behind the entries put in front of it, imported if it was; so
\* imported_block_hash(), once Some, is Some after every later call.
C22_ImportedNeverCleared ==
    IsSome(call) =>
        /\ Len(proposal) >= Len(prev)
        /\ \A i \in 1 .. Len(prev) :
              /\ proposal[PlaceAfterCall(i)].block_hash = prev[i].block_hash
              /\ proposal[PlaceAfterCall(i)].priority_message = prev[i].priority_message
              /\ proposal[PlaceAfterCall(i)].signature = prev[i].signature
              /\ prev[i].is_imported => proposal[PlaceAfterCall(i)].is_imported
        /\ IsSome(ProposalImportedBlockHash(prev)) => IsSome(ProposalImportedBlockHash(proposal))

\* an imported entry was imported once more, and is imported still
C22_Witness ==
    /\ Called("new_imported") /\ Call.result /\ Len(prev) = 2
    /\ prev[1].block_hash = Call.block_hash /\ prev[1].is_imported
    /\ proposal[1].is_imported
    /\ ProposalImportedBlockHash(proposal) = Some(Call.block_hash)

(***************************************************************************)
(* C23                                                                     *)
(***************************************************************************)
\* what the account was paid of the rewards earned as an author: its balance
\* without the shares it was handed out as a stakeholder
PaidRewards(a) == solo.balance[a] - Closed.shares[a]

\* C23: with term_seconds # 0, after any sequence of closed blocks every reward an
\* author has earned is either still in the intermediate rewards or paid to the
\* author, once; a block that closes no term pays no reward; a block that closes
\* the term pays all the rewards earned up to it, its own included, and leaves
\* the current and the previous intermediate rewards empty.
C23_RewardsPaidOnce ==
    (IsSome(closed) /\ solo.term_seconds # 0) =>
        /\ \A a \in Addresses :
              PaidRewards(a) + solo.current[a] + solo.previous[a] = Closed.earned[a]
        /\ (Returns /\ ~PeriodsDiffer) =>
              \A a \in Addresses :
                  /\ IsShare(Credited(a), a)
                  /\ solo.current[a] >= Parent.current[a]
        /\ (Returns /\ PeriodsDiffer) =>
              /\ solo.current = NoRewards /\ solo.previous = NoRewards
              /\ \A a \in Addresses : PaidRewards(a) = Closed.earned[a]

\* the first block earned a2 its reward and closed no term; the second block, of
\* a0, closed the term and both authors were paid then
C23_Witness ==
    /\ Returns /\ Parent.term_seconds = 2 /\ Closed.number = 2 /\ PeriodsDiffer
    /\ Parent.current["a2"] = 5 /\ Parent.balance["a2"] = 0
    /\ Closed.author = "a0" /\ Parent.block_reward = 5
    /\ Closed.earned["a2"] = 5 /\ PaidRewards("a2") = 5
    /\ PaidRewards("a0") = Closed.earned["a0"] /\ Closed.earned["a0"] >= 5
    /\ solo.current = NoRewards /\ solo.previous = NoRewards

(***************************************************************************)
(* C24, C25, C26                                                           *)
(***************************************************************************)
\* the state the last call was made on, and the arguments and the value of the call
StateBefore == Unwrap(ret).before
StateArgs == Unwrap(ret).args
StateValue == Unwrap(ret).v
StateCalled(ops) == IsSome(ret) /\ LastOp \in ops

\* C24: on a state that is not Propose, mark_timed_out_if_propose_step,
\* wait_block_generation, wait_imported and generation_halted leave the state as
\* it was, generation_completed and import_completed return None and leave it as
\* it was, and is_propose_step_ended is false before and after the call.
C24_NoEffectOutsidePropose ==
    (/\ StateCalled({"mark_timed_out_if_propose_step", "wait_block_generation", "wait_imported",
                     "generation_halted", "generation_completed", "import_completed"})
     /\ ~IsPropose(StateBefore)) =>
        /\ StateBefore.tag \in {"Prevote", "Precommit", "Commit", "CommitTimedout"}
        /\ state = StateBefore
        /\ LastOp \in {"generation_completed", "import_completed"} => StateValue = None
        /\ ~IsProposeStepEnded(StateBefore)
        /\ ~IsProposeStepEnded(state)

\* the propose timeout arrived in the Prevote step
C24_Witness ==
    /\ StateCalled({"mark_timed_out_if_propose_step"})
    /\ StateBefore = Prevote /\ state = Prevote
    /\ ~IsProposeStepEnded(state)

\* the fields of a Propose state other than the pending imports
OtherThanWaitImported(self) == <<self.tag, self.wait_block_generation, self.is_timed_out>>

\* the indices of the pending imports whose block has the hash
PendingWithHash(self, h) ==
    {i \in 1 .. Len(self.wait_imported) : HeaderHash(self.wait_imported[i][2]) = h}

\* C25: in a Propose state, wait_imported(p, b) puts (p, b) at the front of the
\* pending list and keeps the rest; import_completed(h) returns None and changes
\* nothing when no pending block has the hash h, and otherwise removes and returns
\* the pending entry of the lowest index whose block has the hash h, the other
\* entries keeping their order; neither changes the rest of the state.
C25_PendingImports ==
    (StateCalled({"wait_imported", "import_completed"}) /\ IsPropose(StateBefore)) =>
        LET old == StateBefore.wait_imported
            new == state.wait_imported
        IN  /\ IsPropose(state)
            /\ OtherThanWaitImported(state) = OtherThanWaitImported(StateBefore)
            /\ LastOp = "wait_imported" =>
                  /\ Len(new) = Len(old) + 1
                  /\ new[1] = <<StateArgs[1], StateArgs[2]>>
                  /\ \A k \in 1 .. Len(old) : new[k + 1] = old[k]
            /\ LastOp = "import_completed" =>
                  LET hits == PendingWithHash(StateBefore, StateArgs[1])
                  IN  IF hits = {} THEN StateValue = None /\ new = old
                      ELSE \E i \in hits :
                              /\ \A j \in hits : i <= j
                              /\ StateValue = Some(old[i])
                              /\ Len(new) = Len(old) - 1
                              /\ \A k \in 1 .. Len(new) :
                                    new[k] = old[IF k < i THEN k ELSE k + 1]

\* two blocks with the hash were pending; the one that arrived last, at the front,
\* was completed and the older one is still pending
C25_Witness ==
    /\ StateCalled({"import_completed"}) /\ IsPropose(StateBefore)
    /\ Len(StateBefore.wait_imported) = 2
    /\ PendingWithHash(StateBefore, StateArgs[1]) = {1, 2}
    /\ StateBefore.wait_imported[1] # StateBefore.wait_imported[2]
    /\ StateValue = Some(StateBefore.wait_imported[1])
    /\ state.wait_imported = <<StateBefore.wait_imported[2]>>

\* C26: in a Propose state, wait_block_generation(p, parent) makes (p, parent) the
\* awaited pair whatever was awaited before; generation_completed returns the
\* awaited pair, or None, and clears it, so that the same call made again returns
\* None; generation_halted clears it and returns nothing; none of the three
\* changes the pending imports or the timed-out mark.
C26_OneAwaitedGeneration ==
    (/\ StateCalled({"wait_block_generation", "generation_completed", "generation_halted"})
     /\ IsPropose(StateBefore)) =>
        /\ IsPropose(state)
        /\ state.wait_imported = StateBefore.wait_imported
        /\ state.is_timed_out = StateBefore.is_timed_out
        /\ LastOp = "wait_block_generation" =>
              state.wait_block_generation = Some(<<StateArgs[1], StateArgs[2]>>)
        /\ LastOp = "generation_completed" =>
              /\ StateValue = StateBefore.wait_block_generation
              /\ state.wait_block_generation = None
              /\ InnerGenerationCompleted(Inner(state))[2] = None
        /\ LastOp = "generation_halted" =>
              /\ StateValue = None
              /\ state.wait_block_generation = None

\* a generation was awaited, with a block pending and the timeout marked, when the
\* generation on another parent was asked for: the earlier pair was replaced
C26_Witness ==
    /\ StateCalled({"wait_block_generation"}) /\ IsPropose(StateBefore)
    /\ IsSome(StateBefore.wait_block_generation)
    /\ Unwrap(StateBefore.wait_block_generation)[2] # StateArgs[2]
    /\ state.wait_block_generation = Some(<<StateArgs[1], StateArgs[2]>>)
    /\ Len(state.wait_imported) = 1 /\ state.is_timed_out

(***************************************************************************)
(* TwoThirdsMajority (types.rs).                                           *)
(***************************************************************************)
Empty == <<"Empty">>
Lock(view, block_hash) == <<"Lock", view, block_hash>>
Unlock(view) == <<"Unlock", view>>

\* a from_message that locks on the zero hash when the majority is for nil
FromMessageLockingNil(view, block_hash) ==
    IF IsSome(block_hash) THEN Lock(view, Unwrap(block_hash)) ELSE Lock(view, ZeroHash)

\* TwoThirdsMajority::from_message
FromMessage(view, block_hash) ==
    IF IsSome(block_hash) THEN Lock(view, Unwrap(block_hash)) ELSE Unlock(view)

\* TwoThirdsMajority::view
MajorityView(self) ==
    CASE self[1] = "Empty" -> None
      [] self[1] = "Lock" -> Some(self[2])
      [] self[1] = "Unlock" -> Some(self[2])

\* TwoThirdsMajority::block_hash
MajorityBlockHash(self) ==
    CASE self[1] = "Empty" -> None
      [] self[1] = "Lock" -> Some(self[3])
      [] self[1] = "Unlock" -> None

\* the record of a call: the operation, its arguments, the value it was called on
\* and the value it returned
MajorityReturned(op, args, value) ==
    Some([op |-> op, args |-> args, before |-> twoThirds, v |-> value])

InitMajority ==
    /\ twoThirds = Empty
    /\ twoThirdsRet = None
    /\ lhs = Idle /\ rhs = Idle /\ ordering = None
    /\ msg = None /\ wire = None /\ decoded = None
    /\ state = Idle /\ ret = None
    /\ proposal = <<>> /\ prev = <<>> /\ call = None
    /\ seal = Idle /\ sealRet = None /\ solo = Idle /\ closed = None
    /\ votes = Idle /\ majority = None /\ vote = Idle /\ verified = None

\* TwoThirdsMajority::from_message(view, block_hash) takes the place of the value
CallFromMessage ==
    /\ \E view \in 0 .. MaxView, block_hash \in OptionHashes :
          /\ twoThirds' = FromMessage(view, block_hash)
          /\ twoThirdsRet' = MajorityReturned("from_message", <<view, block_hash>>, None)
    /\ UNCHANGED <<ordVars, codecVars, stateVars, proposalVars, sealVars, soloVars, voteVars,
                   verifyVars>>

\* view() on the value
CallView ==
    /\ twoThirdsRet' = MajorityReturned("view", <<>>, MajorityView(twoThirds))
    /\ UNCHANGED twoThirds
    /\ UNCHANGED <<ordVars, codecVars, stateVars, proposalVars, sealVars, soloVars, voteVars,
                   verifyVars>>

\* block_hash() on the value
CallBlockHash ==
    /\ twoThirdsRet' = MajorityReturned("block_hash", <<>>, MajorityBlockHash(twoThirds))
    /\ UNCHANGED twoThirds
    /\ UNCHANGED <<ordVars, codecVars, stateVars, proposalVars, sealVars, soloVars, voteVars,
                   verifyVars>>

NextMajority ==
    \/ CallFromMessage
    \/ CallView
    \/ CallBlockHash

SpecMajority == InitMajority /\ [][NextMajority]_vars

(***************************************************************************)
(* C27                                                                     *)
(***************************************************************************)
MajorityOp == IF IsSome(twoThirdsRet) THEN Unwrap(twoThirdsRet).op ELSE "none"
MajorityArgs == Unwrap(twoThirdsRet).args
MajorityValue == Unwrap(twoThirdsRet).v

\* C27: from_message(v, Some(h)) is Lock(v, h) and from_message(v, None) is
\* Unlock(v), never Empty; view() returns Some(v) on Lock(v, _) and on Unlock(v)
\* and None on Empty; block_hash() returns Some(h) on Lock(_, h) and None on
\* Unlock and on Empty, so that the value made of a majority for nil has a view
\* and no locked hash.
C27_TwoThirdsMajority ==
    /\ MajorityOp = "from_message" =>
          /\ twoThirds # <<"Empty">>
          /\ IsSome(MajorityArgs[2]) =>
                twoThirds = <<"Lock", MajorityArgs[1], Unwrap(MajorityArgs[2])>>
          /\ IsNone(MajorityArgs[2]) =>
                /\ twoThirds = <<"Unlock", MajorityArgs[1]>>
                /\ MajorityBlockHash(twoThirds) = None
          /\ MajorityView(twoThirds) = Some(MajorityArgs[1])
    /\ MajorityOp = "view" =>
          /\ twoThirds[1] \in {"Lock", "Unlock"} => MajorityValue = Some(twoThirds[2])
          /\ twoThirds[1] = "Empty" => MajorityValue = None
    /\ MajorityOp = "block_hash" =>
          /\ twoThirds[1] = "Lock" => MajorityValue = Some(twoThirds[3])
          /\ twoThirds[1] \in {"Unlock", "Empty"} => MajorityValue = None

\* block_hash() was asked of the value made of a majority for nil in the view 2
C27_Witness ==
    /\ MajorityOp = "block_hash"
    /\ twoThirds = FromMessage(2, None)
    /\ twoThirds = <<"Unlock", 2>>
    /\ MajorityValue = None
    /\ MajorityView(twoThirds) = Some(2)

(***************************************************************************)
(* C28                                                                     *)
(***************************************************************************)
\* every transaction of the list pays at least its minimum cost
FeesCoverMinCosts(transactions) ==
    \A i \in 1 .. Len(transactions) : transactions[i].fee >= transactions[i].min_cost

\* C28: when every transaction of the block pays at least its minimum cost, the
\* block reward and the fees together cover the minimum costs, on_close_block
\* passes its assertion and returns, and the reward of the author is not below
\* zero; on_close_block never returns an error for the amounts: it aborts at the
\* assertion exactly when the block reward and the fees are below the minimum
\* costs, and the chain is then as it was. Sums of amounts stay below 2^64.
C28_AssertionGuardsReward ==
    IsSome(closed) =>
        /\ FeesCoverMinCosts(Closed.transactions) =>
              /\ Parent.block_reward + ClosedFee >= ClosedMinFee
              /\ Returns
              /\ (Parent.block_reward + ClosedFee) - ClosedMinFee >= 0
        /\ Closed.result.ok \/ IsPanic(Closed.result)
        /\ IsPanic(Closed.result) <=> Parent.block_reward + ClosedFee < ClosedMinFee
        /\ IsPanic(Closed.result) => solo = Parent

\* a block of two transactions that pay one unit above their minimum costs was
\* closed on a chain without block reward
C28_Witness ==
    /\ IsSome(closed) /\ Returns
    /\ Closed.transactions = <<Tx(3, 2), Tx(4, 3)>>
    /\ FeesCoverMinCosts(Closed.transactions)
    /\ Parent.block_reward = 0
    /\ ClosedFee - ClosedMinFee = 2

(***************************************************************************)
(* C29                                                                     *)
(***************************************************************************)
\* the seal holds a BitSet in slot 3 and a list in slot 2, and the list has more
\* or fewer items than the BitSet has set bits
SealCountsDiffer ==
    /\ Len(seal) >= 4
    /\ DecodeBitSet(seal[4]).ok
    /\ IsList(seal[3])
    /\ Len(seal[3][2]) # Cardinality(DecodeBitSet(seal[4]).v)

\* C29: in a build without debug assertions, for a seal whose BitSet has c set
\* bits and whose precommit list has l items, c # l, signatures() does not abort,
\* and when the first min(c, l) items of the list are signatures it returns
\* min(c, l) pairs and no error: the k-th pair holds the k-th smallest set index
\* and the k-th signature; the indices or the items beyond min(c, l) are dropped,
\* the items without being decoded.
C29_MismatchTruncates ==
    (/\ SealOp = "signatures"
     /\ ~Unwrap(sealRet).debug_assertions
     /\ SealCountsDiffer) =>
        LET bits == DecodeBitSet(seal[4]).v
            sigs == seal[3][2]
            n == IF Cardinality(bits) <= Len(sigs) THEN Cardinality(bits) ELSE Len(sigs)
        IN  /\ ~IsPanic(SealResult)
            /\ (\A k \in 1 .. n : DecodeSignature(sigs[k]).ok) =>
                  /\ SealResult.ok
                  /\ Len(SealResult.v) = n
                  /\ \A k \in 1 .. n :
                        /\ SealResult.v[k][1] \in bits
                        /\ Cardinality({i \in bits : i < SealResult.v[k][1]}) = k - 1
                        /\ SealResult.v[k][2] = sigs[k][2]

\* the signers 0 and 2 with a single signature: it is paired with the index 0 and
\* the index 2 is dropped
C29_Witness ==
    /\ SealOp = "signatures" /\ ~Unwrap(sealRet).debug_assertions /\ SealCountsDiffer
    /\ DecodeBitSet(seal[4]).v = {0, 2}
    /\ Len(seal[3][2]) = 1
    /\ SealResult.ok
    /\ SealResult.v = <<<<0, seal[3][2][1][2]>>>>

====
